---------------------------- MODULE Spec2Model ----------------------------
(***************************************************************************)
(* LogVeil masking engine: Masker (src/core/masker.ts), Detector           *)
(* (src/core/detectors.ts) and MaskingRules (src/core/rules.ts).           *)
(*                                                                         *)
(* Strings are TLA+ strings; a character is a string of length one.        *)
(* A JavaScript value is a record tagged by t:                             *)
(*   "str" (s), "num" (n), "bool" (b), "null", "undef", "date" (ms),       *)
(*   "arr" (id, items), "obj" (id, keys, vals).                            *)
(* The id of a container is its identity (reference): containers of the    *)
(* caller's input carry IdIn, the containers allocated by deepClone carry  *)
(* IdClone and the ones allocated by maskObject carry IdOut.               *)
(***************************************************************************)
EXTENDS Integers, Sequences, FiniteSets, TLC

(***************************************************************************)
(* String primitives of the JavaScript runtime used by the engine.         *)
(***************************************************************************)
Char(s, i) == SubSeq(s, i, i)

UpperStr == "ABCDEFGHIJKLMNOPQRSTUVWXYZ"

LowerStr == "abcdefghijklmnopqrstuvwxyz"

CharsOf(s) == { Char(s, i) : i \in 1..Len(s) }

Digit == CharsOf("0123456789")

Alpha == CharsOf(UpperStr) \cup CharsOf(LowerStr)

WhiteSpace == {" "}

Upper == CharsOf(UpperStr)

toLowerChar(c) ==
  IF c \in Upper
  THEN Char(LowerStr, CHOOSE i \in 1..Len(UpperStr) : Char(UpperStr, i) = c)
  ELSE c

RECURSIVE toLowerCase(_)
toLowerCase(s) ==
  IF s = "" THEN "" ELSE toLowerChar(Head(s)) \o toLowerCase(Tail(s))

RECURSIVE trimStart(_)
trimStart(s) ==
  IF s # "" /\ Head(s) \in WhiteSpace THEN trimStart(Tail(s)) ELSE s

RECURSIVE trimEnd(_)
trimEnd(s) ==
  IF s # "" /\ Char(s, Len(s)) \in WhiteSpace
  THEN trimEnd(SubSeq(s, 1, Len(s) - 1))
  ELSE s

trim(s) == trimEnd(trimStart(s))

slice(s, from) == SubSeq(s, from + 1, Len(s))

RECURSIVE repeat(_, _)
repeat(c, n) == IF n <= 0 THEN "" ELSE c \o repeat(c, n - 1)

RECURSIVE filterChars(_, _)
filterChars(s, keep) ==
  IF s = "" THEN ""
  ELSE (IF Head(s) \in keep THEN Head(s) ELSE "") \o filterChars(Tail(s), keep)

RECURSIVE indexOf(_, _, _)
indexOf(s, sub, from) ==
  IF from + Len(sub) > Len(s) THEN -1
  ELSE IF SubSeq(s, from + 1, from + Len(sub)) = sub THEN from
  ELSE indexOf(s, sub, from + 1)

includes(s, sub) == indexOf(s, sub, 0) # -1

RECURSIVE join(_)
join(parts) == IF parts = <<>> THEN "" ELSE Head(parts) \o join(Tail(parts))

(***************************************************************************)
(* Regular expressions.  A pattern is                                      *)
(*   [alts, anchS, anchE, wbS, wbE, ci, g, y, lastIndex]                   *)
(* alts: the alternatives in priority order, each a sequence of items      *)
(* [cls, min, max] (a greedy quantified character class; max = -1 is no    *)
(* upper limit); anchS/anchE: ^ and $; wbS/wbE: a leading / trailing \b;   *)
(* ci: the i flag; g, y: the global and sticky flags; lastIndex: the       *)
(* lastIndex property of the RegExp object.  Matching is the backtracking  *)
(* search of the runtime: leftmost start, alternatives in order, each item *)
(* longest first.                                                          *)
(***************************************************************************)
Item(c, lo, hi) == [cls |-> c, min |-> lo, max |-> hi]

One(c) == Item(c, 1, 1)

Opt(c) == Item(c, 0, 1)

Plus(c) == Item(c, 1, -1)

Lit(s) == [i \in 1..Len(s) |-> One({Char(s, i)})]

\* a pattern without the g and y flags
Regex(as, aS, aE, bS, bE, i) ==
  [alts |-> as, anchS |-> aS, anchE |-> aE, wbS |-> bS, wbE |-> bE, ci |-> i,
   g |-> FALSE, y |-> FALSE, lastIndex |-> 0]

IsWordAt(s, i) ==
  i >= 1 /\ i <= Len(s) /\ Char(s, i) \in Alpha \cup Digit \cup {"_"}

Boundary(s, pos) == IsWordAt(s, pos) # IsWordAt(s, pos + 1)

InClass(re, it, c) ==
  IF re.ci THEN toLowerChar(c) \in { toLowerChar(x) : x \in it.cls }
  ELSE c \in it.cls

RECURSIVE Run(_, _, _, _, _)
Run(re, it, s, pos, n) ==
  IF (it.max # -1 /\ n >= it.max) \/ pos + n >= Len(s) THEN n
  ELSE IF InClass(re, it, Char(s, pos + n + 1)) THEN Run(re, it, s, pos, n + 1)
  ELSE n

RECURSIVE MatchItems(_, _, _, _, _), TryCount(_, _, _, _, _, _)
MatchItems(re, items, s, i, pos) ==
  IF i > Len(items)
  THEN IF (re.anchE => pos = Len(s)) /\ (re.wbE => Boundary(s, pos))
       THEN pos ELSE -1
  ELSE TryCount(re, items, s, i, pos, Run(re, items[i], s, pos, 0))

TryCount(re, items, s, i, pos, k) ==
  IF k < items[i].min THEN -1
  ELSE LET r == MatchItems(re, items, s, i + 1, pos + k)
       IN IF r # -1 THEN r ELSE TryCount(re, items, s, i, pos, k - 1)

\* index of the first entry of a list that satisfies a test, 0 if none
FirstIndex(ok) ==
  IF \E i \in DOMAIN ok : ok[i]
  THEN CHOOSE i \in DOMAIN ok : ok[i] /\ \A j \in 1..(i - 1) : ~ok[j]
  ELSE 0

MatchAlts(re, s, pos) ==
  LET Ok(a) == MatchItems(re, re.alts[a], s, 1, pos) # -1
      a == FirstIndex([i \in 1..Len(re.alts) |-> Ok(i)])
  IN IF a = 0 THEN -1 ELSE MatchItems(re, re.alts[a], s, 1, pos)

MatchAt(re, s, pos) ==
  IF (re.anchS => pos = 0) /\ (re.wbS => Boundary(s, pos))
  THEN MatchAlts(re, s, pos)
  ELSE -1

RECURSIVE Search(_, _, _)
Search(re, s, from) ==
  IF from > Len(s) THEN <<-1, -1>>
  ELSE LET e == MatchAt(re, s, from)
       IN IF e # -1 THEN <<from, e>> ELSE Search(re, s, from + 1)

\* RegExp.prototype.test of a pattern without the g and y flags: lastIndex
\* is neither read nor written
test(re, s) == \E pos \in 0..Len(s) : MatchAt(re, s, pos) # -1

\* RegExp.prototype.test: whether the pattern matched and its lastIndex
\* after the call.  With the g or y flag the match starts at lastIndex (with
\* y it must start there), and lastIndex becomes the end of the match, or 0
\* if there is none
exec(re, s) ==
  IF ~(re.g \/ re.y) THEN [found |-> test(re, s), lastIndex |-> re.lastIndex]
  ELSE IF re.lastIndex > Len(s) THEN [found |-> FALSE, lastIndex |-> 0]
  ELSE IF (IF re.y THEN MatchAt(re, s, re.lastIndex)
           ELSE Search(re, s, re.lastIndex)[2]) = -1
  THEN [found |-> FALSE, lastIndex |-> 0]
  ELSE [found |-> TRUE,
        lastIndex |-> IF re.y THEN MatchAt(re, s, re.lastIndex)
                      ELSE Search(re, s, re.lastIndex)[2]]

\* patterns.some((pattern) => pattern.test(s)): whether a pattern matched,
\* and the patterns as the tests made up to the first match leave them
RECURSIVE some(_, _)
some(patterns, s) ==
  IF patterns = << >> THEN [found |-> FALSE, patterns |-> << >>]
  ELSE IF exec(Head(patterns), s).found
  THEN [found |-> TRUE,
        patterns |-> << [Head(patterns) EXCEPT
                           !.lastIndex = exec(Head(patterns), s).lastIndex] >>
                     \o Tail(patterns)]
  ELSE [some(Tail(patterns), s) EXCEPT
          !.patterns = << [Head(patterns) EXCEPT
                             !.lastIndex = exec(Head(patterns), s).lastIndex] >>
                       \o @]

match0(re, s) ==
  LET m == Search(re, s, 0)
  IN IF m[1] = -1 THEN [found |-> FALSE, text |-> ""]
     ELSE [found |-> TRUE, text |-> SubSeq(s, m[1] + 1, m[2])]

RECURSIVE Split(_, _, _)
Split(re, s, from) ==
  LET m == Search(re, s, from)
  IN IF m[1] = -1
     THEN << [isMatch |-> FALSE, text |-> SubSeq(s, from + 1, Len(s))] >>
     ELSE << [isMatch |-> FALSE, text |-> SubSeq(s, from + 1, m[1])],
             [isMatch |-> TRUE, text |-> SubSeq(s, m[1] + 1, m[2])] >>
          \o (IF m[2] > m[1] THEN Split(re, s, m[2])
              ELSE IF m[2] < Len(s)
                   THEN << [isMatch |-> FALSE, text |-> Char(s, m[2] + 1)] >>
                        \o Split(re, s, m[2] + 1)
                   ELSE << >>)


(***************************************************************************)
(* Values.                                                                 *)
(***************************************************************************)
Str(x) == [t |-> "str", s |-> x]

Num(x) == [t |-> "num", n |-> x]

Null == [t |-> "null"]

Undefined == [t |-> "undef"]

DateOf(x) == [t |-> "date", ms |-> x]

Arr(i, xs) == [t |-> "arr", id |-> i, items |-> xs]

Obj(i, ks, vs) == [t |-> "obj", id |-> i, keys |-> ks, vals |-> vs]

Thrown(m) == [t |-> "throw", msg |-> m]

IsString(v) == v.t = "str"

IsObjectType(v) == v.t \in {"arr", "obj", "date"}

IdIn == "in"

IdClone == "clone"

IdOut == "out"

(***************************************************************************)
(* rules.ts: the strategy appliers.                                        *)
(***************************************************************************)
DEFAULT_PII_ENVIRONMENT_MAPPING ==
  [development |-> "partial", staging |-> "full", production |-> "hash"]

DEFAULT_PHI_ENVIRONMENT_MAPPING ==
  [development |-> "full", staging |-> "full", production |-> "hash"]

visibleChars(n) == IF n \div 3 < 2 THEN n \div 3 ELSE 2

\* value.split("@") destructured into its first two parts
splitAt(s) ==
  LET i == indexOf(s, "@", 0)
      rest == slice(s, i + 1)
      j == indexOf(rest, "@", 0)
  IN [localPart |-> SubSeq(s, 1, i),
      domain |-> IF j = -1 THEN rest ELSE SubSeq(rest, 1, j)]

partialMask(s) ==
  IF s = "" THEN "********"
  ELSE IF includes(s, "@")
  THEN LET p == splitAt(s)
       IN SubSeq(p.localPart, 1, visibleChars(Len(p.localPart))) \o "****"
          \o "@" \o p.domain
  ELSE LET digits == filterChars(s, Digit)
       IN IF /\ CharsOf(s) \subseteq CharsOf("+-()") \cup WhiteSpace \cup Digit
             /\ Len(digits) >= 4
          THEN repeat("*", Len(digits) - 4) \o slice(digits, Len(digits) - 4)
          ELSE SubSeq(s, 1, visibleChars(Len(s))) \o "****"

fullMask == "********"

\* JSON.stringify of a value; "" stands for the result undefined
RECURSIVE stringify(_), stringifyItems(_, _), stringifyProps(_, _, _)
stringify(v) ==
  CASE v.t = "str" -> "\"" \o v.s \o "\""
    [] v.t = "num" -> ToString(v.n)
    [] v.t = "bool" -> IF v.b THEN "true" ELSE "false"
    [] v.t = "null" -> "null"
    [] v.t = "date" -> "\"" \o "T" \o ToString(v.ms) \o "\""
    [] v.t = "arr" -> "[" \o stringifyItems(v.items, 1) \o "]"
    [] v.t = "obj" -> "{" \o stringifyProps(v, 1, TRUE) \o "}"
    [] OTHER -> ""

stringifyItems(xs, i) ==
  IF i > Len(xs) THEN ""
  ELSE (IF i > 1 THEN "," ELSE "")
       \o (IF stringify(xs[i]) = "" THEN "null" ELSE stringify(xs[i]))
       \o stringifyItems(xs, i + 1)

stringifyProps(o, i, first) ==
  IF i > Len(o.keys) THEN ""
  ELSE IF stringify(o.vals[i]) = "" THEN stringifyProps(o, i + 1, first)
  ELSE (IF first THEN "" ELSE ",")
       \o "\"" \o o.keys[i] \o "\":" \o stringify(o.vals[i])
       \o stringifyProps(o, i + 1, FALSE)

\* crypto.createHash(algorithm).update(s).digest("hex").substring(0, 16):
\* a fixed deterministic stand-in for the digest, 16 hexadecimal characters
\* computed from the algorithm name and every character of s
CodeStr ==
  "abcdefghijklmnopqrstuvwxyzABCDEFGHIJKLMNOPQRSTUVWXYZ0123456789 @.-_+:<>*()[]{},'\"#"

code(c) ==
  IF c \in CharsOf(CodeStr)
  THEN CHOOSE i \in 1..Len(CodeStr) : Char(CodeStr, i) = c
  ELSE 0

RECURSIVE fold(_, _, _)
fold(s, h, m) ==
  IF s = "" THEN h ELSE fold(Tail(s), (h * m + code(Head(s)) + 1) % 65536, m)

hex4(n) ==
  LET hexDigit(k) == Char("0123456789abcdef", (k % 16) + 1)
  IN hexDigit(n \div 4096) \o hexDigit(n \div 256) \o hexDigit(n \div 16)
     \o hexDigit(n)

digest16(algorithm, s) ==
  LET seed == Len(algorithm) + code(Char(algorithm, Len(algorithm)))
  IN "e" \o hex4(fold(s, seed, 31)) \o "f" \o hex4(fold(s, seed, 17))
     \o "c" \o hex4(fold(s, seed, 7)) \o "a"

hashMask(v, algorithm) ==
  LET stringValue == IF IsString(v) THEN v.s ELSE stringify(v)
  IN IF algorithm \notin {"sha256", "sha512", "sha1", "md5"}
     THEN Thrown("Digest method not supported")
     ELSE IF ~IsString(v) /\ stringify(v) = ""
     THEN Thrown("The data argument must be of type string")
     ELSE Str("<hashed:" \o digest16(algorithm, stringValue) \o ">")

applyMaskingStrategy(v, strategy, hashAlgorithm) ==
  CASE strategy = "partial" ->
         IF IsString(v) THEN Str(partialMask(v.s)) ELSE Str(fullMask)
    [] strategy = "full" -> Str(fullMask)
    [] strategy = "hash" -> hashMask(v, hashAlgorithm)
    [] strategy = "remove" -> Undefined   \* removeMask()
    [] OTHER -> Str(fullMask)

\* A user mapping is a record over the three environments; "" is an absent
\* entry.  mapping[env] || DEFAULT[env]
NoMapping == [development |-> "", staging |-> "", production |-> ""]

\* the entry of the user's mapping, without the fall back to the defaults
LookupNoFallback(mapping, env, default) == mapping[env]

Lookup(mapping, env, default) ==
  IF mapping[env] # "" THEN mapping[env] ELSE default[env]

getMaskingStrategy(fieldType, env, customPIIMapping, customPHIMapping) ==
  IF fieldType = "phi"
  THEN Lookup(customPHIMapping, env, DEFAULT_PHI_ENVIRONMENT_MAPPING)
  ELSE IF fieldType = "pii"
  THEN Lookup(customPIIMapping, env, DEFAULT_PII_ENVIRONMENT_MAPPING)
  ELSE "full"

(***************************************************************************)
(* detectors.ts: the pattern catalog.                                      *)
(***************************************************************************)
EmailLocal == Alpha \cup Digit \cup CharsOf("._%+-")

EmailDomain == Alpha \cup Digit \cup CharsOf(".-")

PhoneHead ==
  LET Sep == CharsOf("-.") \cup WhiteSpace
  IN << Opt({"+"}), Opt({"("}), Item(Digit, 1, 4), Opt({")"}), Opt(Sep),
        Opt({"("}), Item(Digit, 1, 4), Opt({")"}), Opt(Sep) >>

\* (25[0-5]|2[0-4][0-9]|[01]?[0-9][0-9]?) : Octet(k) is one of the three
\* alternatives; the alternation is expanded over the four octets, in
\* priority order
Ipv4Alts ==
  LET Octet(k) ==
        CASE k = 0 -> << One({"2"}), One({"5"}), One(CharsOf("012345")) >>
          [] k = 1 -> << One({"2"}), One(CharsOf("01234")), One(Digit) >>
          [] OTHER -> << Opt(CharsOf("01")), One(Digit), Opt(Digit) >>
  IN [n \in 1..81 |->
        Octet(((n - 1) \div 27) % 3) \o Lit(".")
        \o Octet(((n - 1) \div 9) % 3) \o Lit(".")
        \o Octet(((n - 1) \div 3) % 3) \o Lit(".") \o Octet((n - 1) % 3)]

PII_PATTERNS ==
  << [name |-> "email", fieldType |-> "pii",
      pattern |-> Regex(<< << Plus(EmailLocal), One({"@"}), Plus(EmailDomain),
                              One({"."}), Item(Alpha, 2, -1) >> >>,
                        TRUE, TRUE, FALSE, FALSE, FALSE)],
     [name |-> "phone", fieldType |-> "pii",
      pattern |-> Regex(<< PhoneHead \o << Item(Digit, 1, 9) >> >>,
                        TRUE, TRUE, FALSE, FALSE, FALSE)],
     [name |-> "ssn", fieldType |-> "pii",
      pattern |-> Regex(<< << Item(Digit, 3, 3), Opt({"-"}), Item(Digit, 2, 2),
                              Opt({"-"}), Item(Digit, 4, 4) >> >>,
                        TRUE, TRUE, FALSE, FALSE, FALSE)],
     [name |-> "creditCard", fieldType |-> "pii",
      pattern |-> Regex(<< << Item(Digit, 4, 4), Opt({"-", " "}),
                              Item(Digit, 4, 4), Opt({"-", " "}),
                              Item(Digit, 4, 4), Opt({"-", " "}),
                              Item(Digit, 4, 4) >> >>,
                        TRUE, TRUE, FALSE, FALSE, FALSE)],
     [name |-> "ipv4", fieldType |-> "pii",
      pattern |-> Regex(Ipv4Alts, TRUE, TRUE, FALSE, FALSE, FALSE)] >>

PHI_PATTERNS ==
  LET IdTail == << Opt({"-", "_"}), Plus(Digit) >>   \* [-_]?\d+
  IN << [name |-> "patientId", fieldType |-> "phi",
         pattern |-> Regex(<< Lit("PAT") \o IdTail, Lit("PT") \o IdTail,
                              Lit("PATIENT") \o IdTail >>,
                           TRUE, TRUE, FALSE, FALSE, TRUE)],
        [name |-> "medicalRecordNumber", fieldType |-> "phi",
         pattern |-> Regex(<< Lit("MRN") \o IdTail, Lit("MR") \o IdTail >>,
                           TRUE, TRUE, FALSE, FALSE, TRUE)],
        [name |-> "healthPlanId", fieldType |-> "phi",
         pattern |-> Regex(<< Lit("HP") \o IdTail, Lit("HEALTH") \o IdTail >>,
                           TRUE, TRUE, FALSE, FALSE, TRUE)] >>

COMMON_PII_FIELDS ==
  << "email", "emailAddress", "phone", "phoneNumber", "mobile", "ssn",
     "socialSecurityNumber", "creditCard", "cardNumber", "password", "secret",
     "token", "apiKey", "accessToken", "refreshToken", "address",
     "streetAddress", "zipCode", "postalCode", "dateOfBirth", "dob",
     "birthDate", "ipAddress", "ip" >>

COMMON_PHI_FIELDS ==
  << "patientId", "patientName", "medicalRecordNumber", "mrn", "diagnosis",
     "medication", "prescription", "healthPlanId", "insuranceId",
     "treatmentPlan", "labResults", "vitalSigns", "allergies" >>

(***************************************************************************)
(* detectors.ts: the Detector.  customPatterns is the detector's own list  *)
(* of custom patterns; a custom pattern is                                 *)
(*   [name, pattern, fieldType, maskingStrategy, customMask]               *)
(* with "" for an absent maskingStrategy or customMask.                    *)
(***************************************************************************)
\* the lower-cased name anywhere in the key
WordUnbounded(name) ==
  Regex(<< Lit(toLowerCase(name)) >>, FALSE, FALSE, FALSE, FALSE, FALSE)

\* new RegExp(`\\b${name.toLowerCase()}\\b`)
WordBounded(name) ==
  Regex(<< Lit(toLowerCase(name)) >>, FALSE, FALSE, TRUE, TRUE, FALSE)

PiiNamePatterns ==
  [i \in 1..Len(COMMON_PII_FIELDS) |-> WordBounded(COMMON_PII_FIELDS[i])]

PhiNamePatterns ==
  [i \in 1..Len(COMMON_PHI_FIELDS) |-> WordBounded(COMMON_PHI_FIELDS[i])]

isPIIFieldName(fieldName) ==
  LET lowerFieldName == toLowerCase(fieldName)
  IN \E i \in 1..Len(PiiNamePatterns) : test(PiiNamePatterns[i], lowerFieldName)

isPHIFieldName(fieldName) ==
  LET lowerFieldName == toLowerCase(fieldName)
  IN \E i \in 1..Len(PhiNamePatterns) : test(PhiNamePatterns[i], lowerFieldName)

detectPIIValue(v) ==
  IF ~IsString(v) THEN 0
  ELSE LET Ok(i) ==
             \* the ipv4 pattern matches strings of digits and dots only
             /\ PII_PATTERNS[i].name = "ipv4" =>
                  CharsOf(v.s) \subseteq Digit \cup {"."}
             /\ test(PII_PATTERNS[i].pattern, v.s)
       IN FirstIndex([i \in 1..Len(PII_PATTERNS) |-> Ok(i)])

detectPHIValue(v) ==
  IF ~IsString(v) THEN 0
  ELSE LET Ok(i) == test(PHI_PATTERNS[i].pattern, v.s)
       IN FirstIndex([i \in 1..Len(PHI_PATTERNS) |-> Ok(i)])

\* both return the index of the pattern in customPatterns, 0 for null
detectCustomValue(customPatterns, v) ==
  IF ~IsString(v) THEN 0
  ELSE LET Ok(i) == test(customPatterns[i].pattern, v.s)
       IN FirstIndex([i \in 1..Len(customPatterns) |-> Ok(i)])

detectExactCustomValue(customPatterns, v) ==
  IF ~IsString(v) THEN 0
  ELSE LET Ok(i) ==
             /\ test(customPatterns[i].pattern, v.s)
             /\ test(customPatterns[i].pattern, trim(v.s))
             /\ match0(customPatterns[i].pattern, trim(v.s)).text = trim(v.s)
       IN FirstIndex([i \in 1..Len(customPatterns) |-> Ok(i)])

\* "" stands for null
detectFieldType(customPatterns, fieldName, v) ==
  IF isPHIFieldName(fieldName) THEN "phi"
  ELSE IF isPIIFieldName(fieldName) THEN "pii"
  ELSE IF detectCustomValue(customPatterns, v) # 0
  THEN LET customPattern == detectCustomValue(customPatterns, v)
       IN customPatterns[customPattern].fieldType
  ELSE IF detectPHIValue(v) # 0 THEN "phi"
  ELSE IF detectPIIValue(v) # 0 THEN "pii"
  ELSE ""

getMatchingCustomPattern(customPatterns, v) ==
  detectExactCustomValue(customPatterns, v)

(***************************************************************************)
(* User-supplied customMask functions.  "last2" is a transform of the      *)
(* shape the examples use (a fixed prefix and the tail of the value);      *)
(* "touch" writes a property into its argument when it is a plain object   *)
(* and returns a fixed string.                                             *)
(***************************************************************************)
customMaskResult(cb, v) ==
  IF cb = "last2"
  THEN IF IsString(v) THEN Str("##" \o slice(v.s, Len(v.s) - 2)) ELSE Str("##")
  ELSE Str("[custom]")

customMaskWrites(cb, v, loc) ==
  IF cb = "touch" /\ v.t = "obj" THEN { [id |-> v.id, loc |-> loc] } ELSE {}

(***************************************************************************)
(* detectors.ts: maskStringValue, the embedded scan.                       *)
(***************************************************************************)
applyMaskingToMatch(text, strategy) ==
  CASE strategy = "full" -> "********"
    [] strategy = "hash" -> "<hashed:" \o digest16("sha256", text) \o ">"
    [] strategy = "remove" -> "<removed>"
    [] OTHER -> SubSeq(text, 1, visibleChars(Len(text))) \o "****"

\* String.prototype.replace with a global pattern and a replacer function
\* String.prototype.replace: the pieces of a split string with each matched
\* piece replaced by the text given for it
Replace(segs, to) ==
  join([i \in 1..Len(segs) |->
          IF segs[i].isMatch THEN to[i] ELSE segs[i].text])

\* the source without its ^ and $, between two \b, with the g flag
globalPattern(pattern) ==
  [pattern EXCEPT !.anchS = FALSE, !.anchE = FALSE, !.wbS = TRUE, !.wbE = TRUE]

replaceCustom(customPattern, s, strategy) ==
  LET F(matchedText) ==
        IF customPattern.customMask # ""
        THEN customMaskResult(customPattern.customMask, Str(matchedText)).s
        ELSE IF customPattern.maskingStrategy # ""
        THEN applyMaskingToMatch(matchedText, customPattern.maskingStrategy)
        ELSE applyMaskingToMatch(matchedText, strategy)
      segs == Split(globalPattern(customPattern.pattern), s, 0)
  IN Replace(segs, [i \in 1..Len(segs) |-> F(segs[i].text)])

RECURSIVE replaceCustoms(_, _, _, _)
replaceCustoms(customPatterns, i, s, strategy) ==
  IF i > Len(customPatterns) THEN s
  ELSE replaceCustoms(customPatterns, i + 1,
                      replaceCustom(customPatterns[i], s, strategy), strategy)

replaceEmails(s, strategy) ==
  LET F(email) ==
        IF strategy = "full" THEN "********"
        ELSE IF strategy = "hash"
        THEN "<hashed:" \o digest16("sha256", email) \o ">"
        ELSE LET p == splitAt(email)
             IN SubSeq(p.localPart, 1, visibleChars(Len(p.localPart)))
                \o "****@" \o p.domain
      emailInTextPattern ==
        Regex(<< << Plus(EmailLocal), One({"@"}), Plus(EmailDomain), One({"."}),
                  Item(Alpha, 2, -1) >> >>, FALSE, FALSE, TRUE, TRUE, FALSE)
      segs == Split(emailInTextPattern, s, 0)
  IN Replace(segs, [i \in 1..Len(segs) |-> F(segs[i].text)])

replacePhones(s, strategy) ==
  LET F(phone) ==
        IF strategy = "full" THEN "********"
        ELSE IF strategy = "hash"
        THEN "<hashed:" \o digest16("sha256", phone) \o ">"
        ELSE IF Len(filterChars(phone, Digit)) >= 4
        THEN repeat("*", Len(phone) - 4) \o slice(phone, Len(phone) - 4)
        ELSE "********"
      phoneInTextPattern ==
        Regex(<< PhoneHead \o << Item(Digit, 4, -1) >> >>,
            FALSE, FALSE, TRUE, TRUE, FALSE)
      segs == Split(phoneInTextPattern, s, 0)
  IN Replace(segs, [i \in 1..Len(segs) |-> F(segs[i].text)])

replaceSsns(s, strategy) ==
  LET F(ssn) ==
        IF strategy = "partial" THEN "***-**-****"
        ELSE IF strategy = "hash" THEN "<hashed:ssn>"
        ELSE "***-**-****"
      ssnInTextPattern ==
        Regex(<< << Item(Digit, 3, 3), One({"-"}), Item(Digit, 2, 2), One({"-"}),
                  Item(Digit, 4, 4) >> >>, FALSE, FALSE, TRUE, TRUE, FALSE)
      segs == Split(ssnInTextPattern, s, 0)
  IN Replace(segs, [i \in 1..Len(segs) |-> F(segs[i].text)])

replaceCards(s, strategy) ==
  LET F(cc) ==
        IF strategy = "partial" THEN "****-****-****-" \o slice(cc, Len(cc) - 4)
        ELSE IF strategy = "hash" THEN "<hashed:card>"
        ELSE "****-****-****-****"
      creditCardPattern ==
        Regex(<< << Item(Digit, 4, 4), Opt({"-", " "}), Item(Digit, 4, 4),
                  Opt({"-", " "}), Item(Digit, 4, 4), Opt({"-", " "}),
                  Item(Digit, 4, 4) >> >>, FALSE, FALSE, TRUE, TRUE, FALSE)
      segs == Split(creditCardPattern, s, 0)
  IN Replace(segs, [i \in 1..Len(segs) |-> F(segs[i].text)])

maskStringValue(customPatterns, s, strategy) ==
  IF s = "" THEN s
  ELSE replaceCards(
         replaceSsns(
           replacePhones(
             replaceEmails(replaceCustoms(customPatterns, 1, s, strategy),
                           strategy),
             strategy),
           strategy),
         strategy)

(***************************************************************************)
(* rules.ts: MaskingRules.  R is the rules engine                          *)
(*   [rules, env, hashAlgorithm, piiMapping, phiMapping];                  *)
(* a rule is [field, strategy, customMask], a field entry (of a rule, of   *)
(* piiFields or of phiFields) is [isRegex, name, pattern].                 *)
(***************************************************************************)
StrField(n) ==
  [isRegex |-> FALSE, name |-> n,
   pattern |-> Regex(<< >>, FALSE, FALSE, FALSE, FALSE, FALSE)]

ReField(re) == [isRegex |-> TRUE, name |-> "", pattern |-> re]

\* the last rule that matches, not the first
findRuleLast(R, fieldName) ==
  LET Ok(i) ==
        IF R.rules[i].field.isRegex
        THEN test(R.rules[i].field.pattern, fieldName)
        ELSE toLowerCase(R.rules[i].field.name) = toLowerCase(fieldName)
  IN IF \E i \in 1..Len(R.rules) : Ok(i)
     THEN CHOOSE i \in 1..Len(R.rules) :
            Ok(i) /\ \A j \in (i + 1)..Len(R.rules) : ~Ok(j)
     ELSE 0

\* index of the rule, 0 for null
findRule(R, fieldName) ==
  LET Ok(i) ==
        IF R.rules[i].field.isRegex
        THEN test(R.rules[i].field.pattern, fieldName)
        ELSE toLowerCase(R.rules[i].field.name) = toLowerCase(fieldName)
  IN FirstIndex([i \in 1..Len(R.rules) |-> Ok(i)])

getStrategy(R, fieldName, fieldType) ==
  LET rule == findRule(R, fieldName)
  IN IF rule # 0 THEN R.rules[rule].strategy
     ELSE IF fieldType # ""
     THEN getMaskingStrategy(fieldType, R.env, R.piiMapping, R.phiMapping)
     ELSE "full"

maskValue(R, fieldName, v, fieldType) ==
  LET rule == findRule(R, fieldName)
  IN IF rule # 0 /\ R.rules[rule].customMask # ""
     THEN customMaskResult(R.rules[rule].customMask, v)
     ELSE applyMaskingStrategy(v, getStrategy(R, fieldName, fieldType),
                               R.hashAlgorithm)

maskValueWrites(R, fieldName, v, loc) ==
  LET rule == findRule(R, fieldName)
  IN IF rule # 0 /\ R.rules[rule].customMask # ""
     THEN customMaskWrites(R.rules[rule].customMask, v, loc)
     ELSE {}

applyCustomStrategy(R, v, strategy, hashAlgorithm) ==
  applyMaskingStrategy(v, strategy,
                       IF hashAlgorithm # "" THEN hashAlgorithm
                       ELSE R.hashAlgorithm)

(***************************************************************************)
(* masker.ts: the Masker.  An engine e is the record of the Masker's       *)
(* fields [config, detector, rules, piiFieldSet, piiPatterns, phiFieldSet, *)
(* phiPatterns]; detector is the Detector's list of custom patterns.       *)
(***************************************************************************)
isPIIField(e, fieldName) ==
  \/ toLowerCase(fieldName) \in e.piiFieldSet
  \/ some(e.piiPatterns, fieldName).found

isPHIField(e, fieldName) ==
  \/ toLowerCase(fieldName) \in e.phiFieldSet
  \/ some(e.phiPatterns, fieldName).found

getFieldType(e, fieldName, v) ==
  IF isPHIField(e, fieldName) THEN "phi"
  ELSE IF isPIIField(e, fieldName) THEN "pii"
  ELSE IF e.config.detectPII THEN detectFieldType(e.detector, fieldName, v)
  ELSE ""

\* the engine after getFieldType(fieldName, value): the field patterns that
\* isPHIField and isPIIField tested have their lastIndex written.  (Rule
\* and custom patterns are tested with test above: those of the engines
\* constructed here carry no g or y flag.)
afterFieldType(e, fieldName) ==
  IF toLowerCase(fieldName) \in e.phiFieldSet THEN e
  ELSE IF \/ some(e.phiPatterns, fieldName).found
          \/ toLowerCase(fieldName) \in e.piiFieldSet
  THEN [e EXCEPT !.phiPatterns = some(e.phiPatterns, fieldName).patterns]
  ELSE [e EXCEPT !.phiPatterns = some(e.phiPatterns, fieldName).patterns,
                 !.piiPatterns = some(e.piiPatterns, fieldName).patterns]

getCustomPattern(e, v) == getMatchingCustomPattern(e.detector, v)

RECURSIVE deepClone(_)
\* the value itself in place of a copy
deepCloneShared(v) == v

deepClone(v) ==
  CASE v.t = "arr" ->
         Arr(IdClone, [i \in 1..Len(v.items) |-> deepClone(v.items[i])])
    [] v.t = "obj" ->
         Obj(IdClone, v.keys, [i \in 1..Len(v.vals) |-> deepClone(v.vals[i])])
    [] v.t = "date" -> DateOf(v.ms)
    [] OTHER -> v

\* the assignment arg.touched = true of the "touch" callback
touched(v) == Obj(v.id, Append(v.keys, "touched"), Append(v.vals, [t |-> "bool", b |-> TRUE]))

\* a removed key left in place whatever preserveStructure says
removedKept(e, key) == [keys |-> << key >>, vals |-> << Str("<removed>") >>]

\* the entries a key whose strategy is remove leaves in the masked object
removed(e, key) ==
  IF e.config.preserveStructure
  THEN [keys |-> << key >>, vals |-> << Str("<removed>") >>]
  ELSE [keys |-> << >>, vals |-> << >>]

\* what maskObject does with one classified key, customPattern being the
\* index getCustomPattern returned for its value: the strategy, the masked
\* value, the writes of the customMask function it calls and the name of the
\* custom pattern
classified(e, key, v, fieldType, loc, customPattern) ==
  LET useCustom == /\ customPattern # 0
                   /\ e.detector[customPattern].fieldType = fieldType
      byMask == useCustom /\ e.detector[customPattern].customMask # ""
      byStrategy == /\ useCustom
                    /\ ~byMask
                    /\ e.detector[customPattern].maskingStrategy # ""
  IN [strategy |->
        IF byMask THEN "custom"
        ELSE IF byStrategy THEN e.detector[customPattern].maskingStrategy
        ELSE getStrategy(e.rules, key, fieldType),
      maskedValue |->
        IF byMask THEN customMaskResult(e.detector[customPattern].customMask, v)
        ELSE IF byStrategy
        THEN applyCustomStrategy(e.rules, v,
                                 e.detector[customPattern].maskingStrategy,
                                 e.config.hashAlgorithm)
        ELSE maskValue(e.rules, key, v, fieldType),
      writes |->
        IF byMask \/ byStrategy THEN {}
        ELSE maskValueWrites(e.rules, key, v, loc),
      customPattern |->
        IF customPattern # 0 THEN e.detector[customPattern].name ELSE ""]

\* the result of a (partial) traversal: the entries built so far, the
\* detected-field records pushed, the writes into argument objects, the
\* message of the exception that ended it ("" if none) and the engine as the
\* traversal left it
Walk(ks, vs, d, w, er, e) ==
  [keys |-> ks, vals |-> vs, detected |-> d, writes |-> w, err |-> er, e |-> e]

Record(p, ty, v, st, cp) ==
  [path |-> p, type |-> ty, value |-> v, strategy |-> st, customPattern |-> cp]

\* the steps of a loop made so far followed by one more; an exception ends
\* the loop
andThen(h, rest) ==
  IF h.err # "" THEN h
  ELSE Walk(h.keys \o rest.keys, h.vals \o rest.vals,
            h.detected \o rest.detected, h.writes \cup rest.writes, rest.err,
            rest.e)

\* the object built from the entries of a loop over the keys
maskedObject(r) ==
  Walk(<< >>, << Obj(IdOut, r.keys, r.vals) >>, r.detected, r.writes, r.err,
       r.e)

\* a classified key: the record pushed and the entry assigned, c being what
\* classified gives for it
sensitiveEntry(e, key, value, currentPath, fieldType, c) ==
  IF c.maskedValue.t = "throw"
  THEN Walk(<< >>, << >>, << >>, c.writes, c.maskedValue.msg, e)
  ELSE Walk(IF c.strategy = "remove" THEN removed(e, key).keys ELSE << key >>,
            IF c.strategy = "remove" THEN removed(e, key).vals
            ELSE << c.maskedValue >>,
            << Record(currentPath, fieldType,
                      IF c.writes # {} THEN touched(value) ELSE value,
                      c.strategy, c.customPattern) >>,
            c.writes, "", e)

\* a record pushed for every scanned string, changed or not
scannedEntryAlways(e, key, value, currentPath, strategy, maskedString) ==
  Walk(<< key >>, << Str(maskedString) >>,
       << Record(currentPath, "pii", value, strategy, "") >>, {}, "", e)

\* an unclassified string: the entry assigned and the record pushed if the
\* scan changed the string
scannedEntry(e, key, value, currentPath, strategy, maskedString) ==
  Walk(<< key >>, << Str(maskedString) >>,
       IF maskedString # value.s
       THEN << Record(currentPath, "pii", value, strategy, "") >>
       ELSE << >>,
       {}, "", e)

\* maskItems and maskProps are the loops over the items of an array and over
\* the keys of an object from index i on, done being the steps made so far;
\* maskEntry is the body of the loop over the keys, e being the engine after
\* getFieldType returned fieldType
RECURSIVE maskObject(_, _, _, _), maskItems(_, _, _, _, _),
          maskProps(_, _, _, _, _), maskEntry(_, _, _, _, _, _)
maskObject(e, obj, path, loc) ==
  IF ~IsObjectType(obj) THEN Walk(<< >>, << obj >>, << >>, {}, "", e)
  ELSE IF obj.t = "arr"
  THEN [maskItems(Walk(<< >>, << >>, << >>, {}, "", e), obj.items, 1, path,
                  loc) EXCEPT
          !.vals = << Arr(IdOut, @) >>]
  ELSE IF obj.t = "date"
  THEN Walk(<< >>, << Obj(IdOut, << >>, << >>) >>, << >>, {}, "", e)
  ELSE maskedObject(maskProps(Walk(<< >>, << >>, << >>, {}, "", e), obj, 1,
                              path, loc))

maskItems(done, items, i, path, loc) ==
  IF i > Len(items) \/ done.err # "" THEN done
  ELSE maskItems(andThen(done,
                         maskObject(done.e, items[i],
                                    path \o "[" \o ToString(i - 1) \o "]",
                                    loc \o << i >>)),
                 items, i + 1, path, loc)

maskProps(done, obj, i, path, loc) ==
  IF i > Len(obj.keys) \/ done.err # "" THEN done
  ELSE maskProps(andThen(done,
                         maskEntry(afterFieldType(done.e, obj.keys[i]),
                                   obj.keys[i], obj.vals[i],
                                   IF path # "" THEN path \o "." \o obj.keys[i]
                                   ELSE obj.keys[i],
                                   loc \o << i >>,
                                   getFieldType(done.e, obj.keys[i],
                                                obj.vals[i]))),
                 obj, i + 1, path, loc)

maskEntry(e, key, value, currentPath, loc, fieldType) ==
  IF fieldType # ""
  THEN sensitiveEntry(e, key, value, currentPath, fieldType,
                      classified(e, key, value, fieldType, loc,
                                 getCustomPattern(e, value)))
  ELSE IF IsObjectType(value)
  THEN [maskObject(e, value, currentPath, loc) EXCEPT !.keys = << key >>]
  ELSE IF IsString(value) /\ e.config.maskStringValues
  THEN scannedEntry(e, key, value, currentPath,
                    getStrategy(e.rules, "", "pii"),
                    maskStringValue(e.detector, value.s,
                                    getStrategy(e.rules, "", "pii")))
  ELSE Walk(<< key >>, << value >>, << >>, {}, "", e)

\* the outcome of mask(data), r being the traversal of the clone: threw tells
\* whether an exception left the call; writes are the objects a customMask
\* function wrote into; piiPatterns and phiPatterns are the field patterns
\* of the engine as the call left them
maskingResult(r) ==
  IF r.err # ""
  THEN [threw |-> TRUE, msg |-> r.err, masked |-> Undefined,
        fieldsProcessed |-> 0, detectedFields |-> << >>, writes |-> r.writes,
        piiPatterns |-> r.e.piiPatterns, phiPatterns |-> r.e.phiPatterns]
  ELSE [threw |-> FALSE, msg |-> "", masked |-> r.vals[1],
        fieldsProcessed |-> Len(r.detected), detectedFields |-> r.detected,
        writes |-> r.writes,
        piiPatterns |-> r.e.piiPatterns, phiPatterns |-> r.e.phiPatterns]

mask(e, data) ==
  IF data.t \in {"null", "undef"}
  THEN [threw |-> FALSE, msg |-> "", masked |-> data, fieldsProcessed |-> 0,
        detectedFields |-> << >>, writes |-> {},
        piiPatterns |-> e.piiPatterns, phiPatterns |-> e.phiPatterns]
  ELSE maskingResult(maskObject(e, deepClone(data), "", << >>))

(***************************************************************************)
(* The values the calls are made with.                                     *)
(***************************************************************************)
\* /^K\d+$/i, class custom, strategy hash
PK == [name |-> "k",
       pattern |-> Regex(<< Lit("K") \o << Plus(Digit) >> >>,
                         TRUE, TRUE, FALSE, FALSE, TRUE),
       fieldType |-> "custom", maskingStrategy |-> "hash", customMask |-> ""]

\* /^K\d+$/, class pii, strategy remove
PP == [name |-> "p",
       pattern |-> Regex(<< Lit("K") \o << Plus(Digit) >> >>,
                         TRUE, TRUE, FALSE, FALSE, FALSE),
       fieldType |-> "pii", maskingStrategy |-> "remove", customMask |-> ""]

\* /\d\d/, class pii, a customMask function
PM == [name |-> "m",
       pattern |-> Regex(<< << Item(Digit, 2, 2) >> >>,
                         FALSE, FALSE, FALSE, FALSE, FALSE),
       fieldType |-> "pii", maskingStrategy |-> "", customMask |-> "last2"]

\* /hello/, class pii, neither strategy nor customMask, named as PK is
PE == [name |-> "k",
       pattern |-> Regex(<< Lit("hello") >>, FALSE, FALSE, FALSE, FALSE, FALSE),
       fieldType |-> "pii", maskingStrategy |-> "", customMask |-> ""]

PatternPool == {PK, PP, PM, PE}

Rule(f, st, cm) == [field |-> f, strategy |-> st, customMask |-> cm]

\* the configurations an engine is constructed from: a configuration is a
\* function on the names of the fields it supplies
InitConfigs ==
  { << >>,
    [env |-> "development",
     piiFields |-> << StrField("Special"), StrField("patientId") >>,
     customPatterns |-> << PK >>],
    [env |-> "staging",
     piiFields |-> << StrField("special"),
                      \* /^not/i
                      ReField(Regex(<< Lit("not") >>, TRUE, FALSE, FALSE,
                                    FALSE, TRUE)) >>,
     phiFields |-> << StrField("special"), StrField("email") >>,
     customPatterns |-> << PP, PM >>],
    [maskingRules |-> << Rule(StrField("Special"), "remove", ""),
                         \* /^me/
                         Rule(ReField(Regex(<< Lit("me") >>, TRUE, FALSE,
                                            FALSE, FALSE, FALSE)),
                              "full", "touch") >>,
     piiFields |-> << StrField("special"), StrField("meta"),
                      StrField("other") >>,
     preserveStructure |-> FALSE,
     customPatterns |-> << PK, PP >>],
    [env |-> "development",
     piiEnvironmentMapping |-> [NoMapping EXCEPT !.development = "remove"],
     phiEnvironmentMapping |-> [development |-> "partial", staging |-> "hash",
                                production |-> "full"],
     detectPII |-> FALSE,
     piiFields |-> << StrField("email") >>,
     phiFields |-> << StrField("special") >>],
    [piiFields |-> << StrField("email") >>,
     maskingRules |-> << \* /^wh/i
                         Rule(ReField(Regex(<< Lit("wh") >>, TRUE, FALSE, FALSE,
                                            FALSE, TRUE)),
                              "remove", ""),
                         Rule(StrField("other"), "remove", "") >>] }

\* the partial configurations updateConfig is called with
UpdateConfigs ==
  { << >>,
    [piiFields |-> << StrField("note") >>, phiFields |-> << StrField("other") >>],
    [env |-> "production", customPatterns |-> << PM, PK >>],
    [env |-> "staging",
     piiEnvironmentMapping |-> [NoMapping EXCEPT !.staging = "partial"],
     maskingRules |-> << >>,
     preserveStructure |-> TRUE, detectPII |-> TRUE,
     maskStringValues |-> FALSE] }

O(ks, vs) == Obj(IdIn, ks, vs)

A(xs) == Arr(IdIn, xs)

\* the values mask is called with
Inputs ==
  { O(<< "special", "other", "note" >>,
      << Str("K1"), Str("K1"), Str("mail a@b.co") >>),
    O(<< "patientId", "email", "special", "other" >>,
      << Str("PAT-1"), Str("a@b.co"), Str(" K1 "), Str("12") >>),
    O(<< "meta", "note", "when" >>,
      << O(<< "special", "tags" >>,
           << Str("12"), A(<< Str("mail a@b.co"), Num(7) >>) >>),
         Str("hello"), DateOf(5) >>),
    O(<< "Special", "meta", "email" >>,
      << O(<< "a" >>, << Num(1) >>), O(<< "b" >>, << Str("K1") >>), Null >>),
    A(<< Str("mail a@b.co"), O(<< "patientId" >>, << Num(3) >>) >>),
    O(<< "email", "items", "gone" >>,
      << Undefined, A(<< Null, Undefined >>), Undefined >>),
    Null }

(***************************************************************************)
(* The engine as a state machine.                                          *)
(***************************************************************************)
VARIABLES
  config,        \* Masker.config
  detector,      \* Masker.detector: Detector.customPatterns
  rules,         \* Masker.rules
  piiFieldSet,   \* Masker.piiFieldSet
  piiPatterns,   \* Masker.piiPatterns
  phiFieldSet,   \* Masker.phiFieldSet
  phiPatterns,   \* Masker.phiPatterns
  call,          \* the last call made on the engine: the operation, the
                 \* pattern name it was given and the value mask was given
  result,        \* what that call returned or threw
  data,          \* the caller's value passed to the last mask call, as it is
                 \* after the call
  listModel,     \* the custom patterns as a plain list: append on a
                 \* successful add, delete by name, empty on clear
  logged,        \* the invocations of the underlying logger made by the
                 \* last call on a masked logger
  ops,           \* number of calls made on the engine
  callerPatterns,\* the customPatterns array of the configuration object
                 \* the caller passed to the constructor, as it is now
  other,         \* a second engine constructed from the same
                 \* configuration object
  sharing        \* the engines ("this", "other") whose
                 \* config.customPatterns is the caller's array itself

vars == << config, detector, rules, piiFieldSet, piiPatterns, phiFieldSet,
           phiPatterns, call, result, data, listModel, logged, ops,
           callerPatterns, other, sharing >>

MaxOps == 3

Engine ==
  [config |-> config, detector |-> detector, rules |-> rules,
   piiFieldSet |-> piiFieldSet, piiPatterns |-> piiPatterns,
   phiFieldSet |-> phiFieldSet, phiPatterns |-> phiPatterns]

Get(c, f, default) == IF f \in DOMAIN c THEN c[f] ELSE default

\* Masker.constructor: the defaults
Defaults(c) ==
  [env |-> Get(c, "env", "production"),
   piiFields |-> Get(c, "piiFields", << >>),
   phiFields |-> Get(c, "phiFields", << >>),
   maskingRules |-> Get(c, "maskingRules", << >>),
   piiEnvironmentMapping |-> Get(c, "piiEnvironmentMapping", NoMapping),
   phiEnvironmentMapping |-> Get(c, "phiEnvironmentMapping", NoMapping),
   detectPII |-> Get(c, "detectPII", TRUE),
   maskStringValues |-> Get(c, "maskStringValues", TRUE),
   hashAlgorithm |-> Get(c, "hashAlgorithm", "sha256"),
   preserveStructure |-> Get(c, "preserveStructure", TRUE),
   customPatterns |-> Get(c, "customPatterns", << >>)]

\* new MaskingRules(rules, env, hashAlgorithm, customPIIMapping,
\* customPHIMapping)
RulesFor(c) ==
  [rules |-> c.maskingRules, env |-> c.env, hashAlgorithm |-> c.hashAlgorithm,
   piiMapping |-> c.piiEnvironmentMapping,
   phiMapping |-> c.phiEnvironmentMapping]

\* the string entries of a field list, lower-cased, and its RegExp entries
FieldSetOf(fields) ==
  { toLowerCase(fields[i].name) : i \in { j \in 1..Len(fields) : ~fields[j].isRegex } }

RECURSIVE FieldPatternsOf(_)
FieldPatternsOf(fields) ==
  IF fields = << >> THEN << >>
  ELSE (IF Head(fields).isRegex THEN << Head(fields).pattern >> ELSE << >>)
       \o FieldPatternsOf(Tail(fields))

Call(op, name, arg) == [op |-> op, name |-> name, arg |-> arg]

NoResult == [threw |-> FALSE, msg |-> "", ret |-> FALSE]

\* new Masker(c)
\* new Masker(c), refs being the engines that keep the customPatterns array
\* of c, which the caller still holds
New(c, refs) ==
  /\ config = Defaults(c)
  /\ detector = Defaults(c).customPatterns
  /\ rules = RulesFor(Defaults(c))
  /\ piiFieldSet = FieldSetOf(Defaults(c).piiFields)
  /\ piiPatterns = FieldPatternsOf(Defaults(c).piiFields)
  /\ phiFieldSet = FieldSetOf(Defaults(c).phiFields)
  /\ phiPatterns = FieldPatternsOf(Defaults(c).phiFields)
  /\ call = Call("new", "", Null)
  /\ result = NoResult
  /\ data = Null
  /\ listModel = Defaults(c).customPatterns
  /\ logged = << >>
  /\ ops = 0
  /\ callerPatterns = Defaults(c).customPatterns
  /\ other = [config |-> Defaults(c),
              detector |-> Defaults(c).customPatterns,
              rules |-> RulesFor(Defaults(c)),
              piiFieldSet |-> FieldSetOf(Defaults(c).piiFields),
              piiPatterns |-> FieldPatternsOf(Defaults(c).piiFields),
              phiFieldSet |-> FieldSetOf(Defaults(c).phiFields),
              phiPatterns |-> FieldPatternsOf(Defaults(c).phiFields)]
  /\ sharing = refs

\* an engine constructed from a configuration object that nothing else refers
\* to afterwards
Constructed(c) == New(c, {})

Init == \E c \in InitConfigs : Constructed(c)

\* the objects of the caller's value after the writes of a call
RECURSIVE touchAt(_, _)
touchAt(v, loc) ==
  IF loc = << >> THEN touched(v)
  ELSE IF v.t = "obj" THEN [v EXCEPT !.vals[Head(loc)] = touchAt(@, Tail(loc))]
  ELSE [v EXCEPT !.items[Head(loc)] = touchAt(@, Tail(loc))]

RECURSIVE applyWrites(_, _)
applyWrites(v, ws) ==
  IF ws = {} THEN v
  ELSE LET w == CHOOSE x \in ws : \A y \in ws : Len(x.loc) >= Len(y.loc)
       IN applyWrites(IF w.id = IdIn THEN touchAt(v, w.loc) ELSE v, ws \ {w})

Mask ==
  /\ ops < MaxOps
  /\ \E x \in Inputs :
       /\ call' = Call("mask", "", x)
       /\ result' = mask(Engine, x)
       /\ data' = applyWrites(x, result'.writes)
  /\ piiPatterns' = result'.piiPatterns
  /\ phiPatterns' = result'.phiPatterns
  /\ ops' = ops + 1
  /\ UNCHANGED << callerPatterns, other, sharing,
                  config, detector, rules, piiFieldSet, phiFieldSet, listModel,
                  logged >>

HasName(list, name) == \E i \in 1..Len(list) : list[i].name = name

\* Array.prototype.splice(index, 1) at the first entry with that name
RemoveFirst(list, name) ==
  LET Ok(i) == list[i].name = name
      k == FirstIndex([i \in 1..Len(list) |-> Ok(i)])
  IN IF k = 0 THEN list
     ELSE SubSeq(list, 1, k - 1) \o SubSeq(list, k + 1, Len(list))

\* an add that does not look for the name
detectorAddUnchecked(customPatterns, pattern) ==
  [list |-> Append(customPatterns, pattern), threw |-> FALSE, msg |-> ""]

\* Detector.addCustomPattern: the list after the call and whether it threw
detectorAdd(customPatterns, pattern) ==
  IF HasName(customPatterns, pattern.name)
  THEN [list |-> customPatterns, threw |-> TRUE,
        msg |-> "Custom pattern with name '" \o pattern.name
                \o "' already exists"]
  ELSE [list |-> Append(customPatterns, pattern), threw |-> FALSE, msg |-> ""]

\* a remove that reports the entry and leaves it registered
detectorRemoveKept(customPatterns, name) ==
  [list |-> customPatterns, ret |-> HasName(customPatterns, name)]

\* Detector.removeCustomPattern: the list after the call and what it returned
detectorRemove(customPatterns, name) ==
  [list |-> RemoveFirst(customPatterns, name),
   ret |-> HasName(customPatterns, name)]

\* this.config.customPatterns after a push or a splice: one array, seen
\* through every reference to it
InPlace(customPatterns) ==
  /\ callerPatterns' = IF "this" \in sharing THEN customPatterns
                       ELSE callerPatterns
  /\ other' = IF {"this", "other"} \subseteq sharing
              THEN [other EXCEPT !.config.customPatterns = customPatterns]
              ELSE other
  /\ sharing' = sharing

AddCustomPattern ==
  \E pattern \in PatternPool :
    /\ ops < MaxOps
    /\ ops' = ops + 1
    /\ call' = Call("addCustomPattern", pattern.name, Null)
    /\ config' = [config EXCEPT !.customPatterns = Append(@, pattern)]
    /\ InPlace(Append(config.customPatterns, pattern))
    /\ detector' = detectorAdd(detector, pattern).list
    /\ result' = [threw |-> detectorAdd(detector, pattern).threw,
                  msg |-> detectorAdd(detector, pattern).msg, ret |-> FALSE]
    /\ listModel' = IF HasName(listModel, pattern.name) THEN listModel
                    ELSE Append(listModel, pattern)
    /\ data' = Null
    /\ UNCHANGED << rules, piiFieldSet, piiPatterns, phiFieldSet, phiPatterns,
                    logged >>

RemoveCustomPattern ==
  \E name \in { p.name : p \in PatternPool } \cup {"zz"} :
    /\ ops < MaxOps
    /\ ops' = ops + 1
    /\ call' = Call("removeCustomPattern", name, Null)
    /\ IF HasName(config.customPatterns, name)
       THEN /\ config' = [config EXCEPT
                            !.customPatterns = RemoveFirst(@, name)]
            /\ InPlace(RemoveFirst(config.customPatterns, name))
            /\ detector' = detectorRemove(detector, name).list
            /\ result' = [threw |-> FALSE, msg |-> "",
                          ret |-> detectorRemove(detector, name).ret]
       ELSE /\ UNCHANGED << config, detector, callerPatterns, other, sharing >>
            /\ result' = [threw |-> FALSE, msg |-> "", ret |-> FALSE]
    /\ listModel' = RemoveFirst(listModel, name)
    /\ data' = Null
    /\ UNCHANGED << rules, piiFieldSet, piiPatterns, phiFieldSet, phiPatterns,
                    logged >>

ClearCustomPatterns ==
  /\ ops < MaxOps
  /\ ops' = ops + 1
  /\ call' = Call("clearCustomPatterns", "", Null)
  /\ config' = [config EXCEPT !.customPatterns = << >>]
  /\ sharing' = sharing \ {"this"}
  /\ detector' = << >>
  /\ result' = NoResult
  /\ listModel' = << >>
  /\ data' = Null
  /\ UNCHANGED << rules, piiFieldSet, piiPatterns, phiFieldSet, phiPatterns,
                  logged, callerPatterns, other >>

\* {...this.config, ...config, <the six list and mapping fields>}
Merged(old, c) ==
  [env |-> Get(c, "env", old.env),
   piiFields |-> Get(c, "piiFields", old.piiFields),
   phiFields |-> Get(c, "phiFields", old.phiFields),
   maskingRules |-> Get(c, "maskingRules", old.maskingRules),
   piiEnvironmentMapping |->
     Get(c, "piiEnvironmentMapping", old.piiEnvironmentMapping),
   phiEnvironmentMapping |->
     Get(c, "phiEnvironmentMapping", old.phiEnvironmentMapping),
   detectPII |-> Get(c, "detectPII", old.detectPII),
   maskStringValues |-> Get(c, "maskStringValues", old.maskStringValues),
   hashAlgorithm |-> Get(c, "hashAlgorithm", old.hashAlgorithm),
   preserveStructure |-> Get(c, "preserveStructure", old.preserveStructure),
   customPatterns |-> Get(c, "customPatterns", old.customPatterns)]

UpdateConfig ==
  \E c \in UpdateConfigs :
    /\ ops < MaxOps
    /\ ops' = ops + 1
    /\ call' = Call("updateConfig", "", Null)
    /\ config' = Merged(config, c)
    /\ sharing' = IF "customPatterns" \in DOMAIN c THEN sharing \ {"this"}
                  ELSE sharing
    /\ detector' = Merged(config, c).customPatterns
    /\ rules' = RulesFor(Merged(config, c))
    /\ result' = NoResult
    /\ listModel' = Merged(config, c).customPatterns
    /\ data' = Null
    /\ UNCHANGED << piiFieldSet, piiPatterns, phiFieldSet, phiPatterns, logged,
                    callerPatterns, other >>

\* updateConfig called on the other engine
OtherUpdateConfig ==
  \E c \in UpdateConfigs :
    /\ ops < MaxOps
    /\ ops' = ops + 1
    /\ call' = Call("other.updateConfig", "", Null)
    /\ other' = [other EXCEPT
                   !.config = Merged(other.config, c),
                   !.detector = Merged(other.config, c).customPatterns,
                   !.rules = RulesFor(Merged(other.config, c))]
    /\ sharing' = IF "customPatterns" \in DOMAIN c THEN sharing \ {"other"}
                  ELSE sharing
    /\ result' = NoResult
    /\ data' = Null
    /\ UNCHANGED << config, detector, rules, piiFieldSet, piiPatterns,
                    phiFieldSet, phiPatterns, listModel, logged, callerPatterns >>

Next ==
  \/ Mask
  \/ AddCustomPattern
  \/ RemoveCustomPattern
  \/ ClearCustomPatterns
  \/ UpdateConfig

Spec == Init /\ [][Next]_vars

\* An engine whose piiFields and phiFields hold patterns with the g or y
\* flag, asked to mask again and again.  The patterns of config.piiFields
\* and config.phiFields are the same RegExp objects as those of piiPatterns
\* and phiPatterns; their lastIndex is kept in piiPatterns and phiPatterns.
FlagSpec ==
  /\ \E c \in
        { \* piiFields: [/^not/gi]
          [piiFields |-> << ReField([Regex(<< Lit("not") >>, TRUE, FALSE,
                                           FALSE, FALSE, TRUE)
                                      EXCEPT !.g = TRUE]) >>],
          \* phiFields: [/^sp/y], piiFields: [/me/g]
          [env |-> "development",
           phiFields |-> << ReField([Regex(<< Lit("sp") >>, TRUE, FALSE,
                                           FALSE, FALSE, FALSE)
                                      EXCEPT !.y = TRUE]) >>,
           piiFields |-> << ReField([Regex(<< Lit("me") >>, FALSE, FALSE,
                                           FALSE, FALSE, FALSE)
                                      EXCEPT !.g = TRUE]) >>],
          \* piiFields: [/^em/g], removed fields left out
          [env |-> "development", preserveStructure |-> FALSE,
           piiFields |-> << ReField([Regex(<< Lit("em") >>, TRUE, FALSE,
                                           FALSE, FALSE, FALSE)
                                      EXCEPT !.g = TRUE]) >>],
          \* piiFields: [/^pat/gi], phiFields: [/^ot/y]
          [env |-> "staging",
           piiFields |-> << ReField([Regex(<< Lit("pat") >>, TRUE, FALSE,
                                           FALSE, FALSE, TRUE)
                                      EXCEPT !.g = TRUE]) >>,
           phiFields |-> << ReField([Regex(<< Lit("ot") >>, TRUE, FALSE,
                                           FALSE, FALSE, FALSE)
                                      EXCEPT !.y = TRUE]) >>],
          \* piiFields: ['special', /ot/g, /^wh/y], no scan of strings
          [maskStringValues |-> FALSE,
           piiFields |-> << StrField("special"),
                            ReField([Regex(<< Lit("ot") >>, FALSE, FALSE,
                                           FALSE, FALSE, FALSE)
                                      EXCEPT !.g = TRUE]),
                            ReField([Regex(<< Lit("wh") >>, TRUE, FALSE,
                                           FALSE, FALSE, FALSE)
                                      EXCEPT !.y = TRUE]) >>] } :
        Constructed(c)
  /\ [][Mask]_vars

(***************************************************************************)
(* Engines constructed with maskingRules: the rules asked for the strategy *)
(* of a field (MaskingRules.getStrategy) and applied by mask.              *)
(***************************************************************************)
GetStrategy ==
  \E fieldName \in {"special", "Special", "SPECIAL", "xspecial", "note",
                      "other", "o", "email", ""} :
    \E fieldType \in {"pii", "phi", "custom"} :
      /\ call' = Call("getStrategy", fieldName, Str(fieldType))
      /\ result' = [threw |-> FALSE, msg |-> "",
                    ret |-> getStrategy(rules, fieldName, fieldType)]
      /\ data' = Null
      /\ UNCHANGED << callerPatterns, other, sharing,
                      config, detector, rules, piiFieldSet, piiPatterns,
                      phiFieldSet, phiPatterns, listModel, logged, ops >>

RuleSpec ==
  /\ \E c \in
        { \* two rules match 'special'; a rule with strategy remove and a
          \* customMask
          [env |-> "development",
           piiFields |-> << StrField("note"), StrField("special") >>,
           maskingRules |-> << \* /^sp/i
                               Rule(ReField(Regex(<< Lit("sp") >>, TRUE, FALSE,
                                                  FALSE, FALSE, TRUE)),
                                    "partial", ""),
                               Rule(StrField("special"), "hash", ""),
                               Rule(StrField("NOTE"), "remove", "last2") >>],
          \* a rule with a customMask on a key whose value a custom pattern
          \* of the same class matches
          [env |-> "staging",
           piiFields |-> << StrField("other") >>,
           customPatterns |-> << PP >>,
           maskingRules |-> << Rule(StrField("Other"), "full", "last2"),
                               \* /^o/
                               Rule(ReField(Regex(<< Lit("o") >>, TRUE, FALSE,
                                                  FALSE, FALSE, FALSE)),
                                    "hash", "") >>],
          \* rules with a customMask on auto-detected keys, a user mapping
          [piiEnvironmentMapping |-> [NoMapping EXCEPT !.production = "partial"],
           preserveStructure |-> FALSE,
           maskingRules |-> << Rule(StrField("email"), "partial", "last2"),
                               Rule(StrField("patientId"), "hash", "last2"),
                               Rule(StrField("o"), "remove", "") >>],
          \* no rules
          [env |-> "development", phiFields |-> << StrField("special") >>] } :
        Constructed(c)
  /\ [][GetStrategy \/ Mask]_vars

(***************************************************************************)
(* The values getConfig() and getCustomPatterns() return, edited by the    *)
(* caller.  getConfig returns { ...this.config }: a new object whose       *)
(* piiFields, phiFields, maskingRules and customPatterns are the arrays of *)
(* this.config themselves, and this.config.maskingRules is the array the   *)
(* MaskingRules constructor stored as this.rules; the Detector holds a     *)
(* copy of customPatterns, and getCustomPatterns returns a copy of that.   *)
(***************************************************************************)
\* c = getConfig(), then c[field].push(entry), c[field].splice(0, 1) or an
\* assignment to c[field]
GetConfig ==
  \E field \in {"piiFields", "phiFields", "maskingRules", "customPatterns"} :
    \E edit \in {"push", "splice", "assign"} :
      \E edited \in
           { IF edit = "splice"
             THEN SubSeq(config[field], 2, Len(config[field]))
             ELSE Append(config[field],
                         CASE field = "maskingRules" ->
                                Rule(StrField("note"), "remove", "")
                           [] field = "customPatterns" -> PM
                           [] OTHER -> StrField("note")) } :
        /\ ops < MaxOps
        /\ ops' = ops + 1
        /\ call' = Call("getConfig", field, Str(edit))
        /\ result' = NoResult
        /\ data' = Null
        /\ config' = IF edit = "assign" THEN config
                     ELSE [config EXCEPT ![field] = edited]
        /\ IF edit # "assign" /\ field = "customPatterns"
           THEN InPlace(edited)
           ELSE UNCHANGED << callerPatterns, other, sharing >>
        /\ rules' = IF edit # "assign" /\ field = "maskingRules"
                    THEN [rules EXCEPT !.rules = edited]
                    ELSE rules
        /\ UNCHANGED << detector, piiFieldSet, piiPatterns, phiFieldSet,
                        phiPatterns, listModel, logged >>

\* l = getCustomPatterns(), then l.push(pattern) or l.splice(0, 1)
GetCustomPatterns ==
  \E edit \in {"push", "splice"} :
    /\ ops < MaxOps
    /\ ops' = ops + 1
    /\ call' = Call("getCustomPatterns", "", Str(edit))
    /\ result' = NoResult
    /\ data' = Null
    /\ UNCHANGED << callerPatterns, other, sharing,
                    config, detector, rules, piiFieldSet, piiPatterns,
                    phiFieldSet, phiPatterns, listModel, logged >>

\* an engine whose getters' results are edited, reconfigured in between
CopySpec ==
  Init /\ [][GetConfig \/ GetCustomPatterns \/ UpdateConfig]_vars

\* two engines constructed from one configuration object that has a
\* customPatterns array, the caller keeping the object
ShareSpec ==
  /\ \E c \in { d \in InitConfigs : "customPatterns" \in DOMAIN d } :
        New(c, {"this", "other"})
  /\ [][AddCustomPattern \/ RemoveCustomPattern \/ ClearCustomPatterns
          \/ UpdateConfig \/ OtherUpdateConfig]_vars

(***************************************************************************)
(* adapters/winston.ts: the masked logger.  createMaskedWinstonLogger      *)
(* constructs its own Masker from the options, so the engine of a masked   *)
(* logger is reached by the logger's methods only.                         *)
(***************************************************************************)
LeveledMethods ==
  {"log", "error", "warn", "info", "debug", "verbose", "silly"}

\* one step of meta.map(...): item handed on as it is, or replaced by
\* the masked tree of m, the outcome of masker.mask(item)
handedOn(done, item, m) ==
  IF ~IsObjectType(item) THEN [done EXCEPT !.items = @ \o << item >>]
  ELSE IF m.threw
  THEN [err |-> m.msg, items |-> << >>, piiPatterns |-> m.piiPatterns,
        phiPatterns |-> m.phiPatterns]
  ELSE [err |-> "", items |-> done.items \o << m.masked >>,
        piiPatterns |-> m.piiPatterns, phiPatterns |-> m.phiPatterns]

\* maskMetadata(...meta) from index i on, done being the steps made so far:
\* the list handed on, the message of the exception if a mask call threw,
\* and the field patterns of the engine afterwards
RECURSIVE maskMetadata(_, _, _, _)
maskMetadata(e, done, meta, i) ==
  IF i > Len(meta) \/ done.err # "" THEN done
  ELSE maskMetadata(e,
                    handedOn(done, meta[i],
                             mask([e EXCEPT
                                     !.piiPatterns = done.piiPatterns,
                                     !.phiPatterns = done.phiPatterns],
                                  meta[i])),
                    meta, i + 1)

\* maskedLogger.log(level, message, ...meta) and
\* maskedLogger.<method>(message, ...meta)
Log ==
  \E method \in LeveledMethods :
    \* the arguments the method is called with: the level (log only), the
    \* message and the metadata arguments
    \E args \in
         LET user == O(<< "email", "meta" >>,
                       << Str("a@b.co"),
                          O(<< "note" >>, << Str("mail a@b.co") >>) >>)
             absent == O(<< "email" >>, << Undefined >>)
             list == A(<< Str("mail a@b.co"),
                          O(<< "patientId" >>, << Num(3) >>) >>)
             lists == { << >>, << user >>, << Str("req-7"), user >>,
                        << list, Null >>, << user, DateOf(5) >>, << absent >>,
                        << Num(7), Undefined >> }
         IN { (IF method = "log" THEN << Str("info") >> ELSE << >>)
                \o << Str("mail a@b.co") >> \o meta : meta \in lists } :
      \E fixed \in {IF method = "log" THEN 2 ELSE 1} :
        \E maskedMeta \in
             {maskMetadata(Engine,
                           [err |-> "", items |-> << >>,
                            piiPatterns |-> piiPatterns,
                            phiPatterns |-> phiPatterns],
                           SubSeq(args, fixed + 1, Len(args)), 1)} :
          /\ call' = Call(method, "", args)
          /\ result' = [threw |-> maskedMeta.err # "", msg |-> maskedMeta.err,
                        ret |-> FALSE]
          /\ logged' = IF maskedMeta.err # "" THEN << >>
                       ELSE << [method |-> method,
                                args |-> SubSeq(args, 1, fixed)
                                           \o maskedMeta.items] >>
          /\ data' = Null
          /\ piiPatterns' = maskedMeta.piiPatterns
          /\ phiPatterns' = maskedMeta.phiPatterns
          /\ UNCHANGED << callerPatterns, other, sharing,
                          config, detector, rules, piiFieldSet, phiFieldSet,
                          listModel, ops >>

LoggerSpec == Init /\ [][Log]_vars

(***************************************************************************)
(* Detector.detectFieldType called on its own: auto-detection of one key   *)
(* and its value.                                                          *)
(***************************************************************************)
\* the keys detection is asked about: built-in names alone and with a
\* prefix and a suffix of word and non-word characters, and the keys of the
\* false-positive test
DetectFieldType ==
  \E fieldName \in
       { pre \o name \o post :
           pre \in {"", "x", "_", "user."},
           name \in {"ip", "Email", "mrn", "zipCode"},
           post \in {"", "s", "_", "-v2"} }
         \cup {"description", "subscription", "transcription", "ipAddress"} :
    \E v \in {Str("Premium plan"), Str("192.168.1.1")} :
      /\ call' = Call("detectFieldType", fieldName, v)
      /\ result' = [threw |-> FALSE, msg |-> "",
                    ret |-> detectFieldType(detector, fieldName, v)]
      /\ data' = Null
      /\ UNCHANGED << callerPatterns, other, sharing,
                      config, detector, rules, piiFieldSet, piiPatterns,
                      phiFieldSet, phiPatterns, listModel, logged, ops >>

\* the detector of an engine constructed, as in the false-positive test,
\* for development with detectPII enabled
DetectorSpec ==
  /\ \E c \in { d \in InitConfigs : /\ Defaults(d).env = "development"
                                     /\ Defaults(d).detectPII } :
        Constructed(c)
  /\ [][DetectFieldType]_vars

\* detectFieldType asked about values that a custom pattern or a built-in
\* value pattern matches as a whole, in part or not at all, under a key the
\* built-in names do not classify and under keys they do
DetectValueType ==
  \E fieldName \in {"note", "mrn", "user.email"} :
    \E v \in { Str("12"), Str("req-12"), Str("K1"), Str(" K1 "), Str("xk12"),
                Str("PAT-1"), Str("a@b.co"), Str("mail a@b.co"), Str("hello"),
                Str("hello there"), Num(12), Null } :
      /\ call' = Call("detectFieldType", fieldName, v)
      /\ result' = [threw |-> FALSE, msg |-> "",
                    ret |-> detectFieldType(detector, fieldName, v)]
      /\ data' = Null
      /\ UNCHANGED << callerPatterns, other, sharing,
                      config, detector, rules, piiFieldSet, piiPatterns,
                      phiFieldSet, phiPatterns, listModel, logged, ops >>

\* the detector of every engine constructed
ValueSpec == Init /\ [][DetectValueType]_vars

(***************************************************************************)
(* partialMask (rules.ts) and Detector.maskStringValue called on their     *)
(* own.                                                                    *)
(***************************************************************************)
MaxLocal == 7

\* e-mail shaped strings with a local part of 1 to MaxLocal characters
PartialMask ==
  \E value \in
       { SubSeq(local, 1, n) \o "@" \o domain :
           local \in {"johnsmith.doe", "a.b+c_d-e%f1x"},
           n \in 1..MaxLocal,
           domain \in {"gmail.com", "b.co", "mail.example.org", "x-y.io"} } :
    /\ call' = Call("partialMask", value, Null)
    /\ result' = [threw |-> FALSE, msg |-> "", ret |-> partialMask(value)]
    /\ data' = Null
    /\ UNCHANGED << callerPatterns, other, sharing,
                    config, detector, rules, piiFieldSet, piiPatterns,
                    phiFieldSet, phiPatterns, listModel, logged, ops >>

\* texts with an embedded SSN and an embedded card number: the text is
\* pre \o ssn \o mid \o card, "" standing for a part left out
ScanTexts ==
  [pre : {"SSN: "}, ssn : {"123-45-6789", ""},
   mid : {", Card: ", " and "},
   card : {"4532-1234-5678-9010", "4532 1234 5678 9010", "4532123456789010",
           ""}]

MaskStringValue ==
  \E t \in ScanTexts :
    \E strategy \in {"partial", "full", "hash", "remove"} :
      /\ call' = Call("maskStringValue", t.pre \o t.ssn \o t.mid \o t.card,
                      Str(strategy))
      /\ result' = [threw |-> FALSE, msg |-> "",
                    ret |-> maskStringValue(detector,
                                            t.pre \o t.ssn \o t.mid \o t.card,
                                            strategy)]
      /\ data' = Null
      /\ UNCHANGED << callerPatterns, other, sharing,
                      config, detector, rules, piiFieldSet, piiPatterns,
                      phiFieldSet, phiPatterns, listModel, logged, ops >>

\* the functions of an engine constructed for development
StringSpec ==
  /\ \E c \in { d \in InitConfigs : /\ Defaults(d).env = "development"
                                     /\ Defaults(d).detectPII } :
        Constructed(c)
  /\ [][PartialMask \/ MaskStringValue]_vars

\* texts with one sensitive piece m between pre and post; builtin tells
\* whether m has the shape of an e-mail address, a phone number, an SSN or
\* a card number
ScanCases ==
  { [pre |-> "id ", m |-> "K1", post |-> " ok", builtin |-> FALSE],
    [pre |-> "say ", m |-> "hello", post |-> "", builtin |-> FALSE],
    [pre |-> "no ", m |-> "12", post |-> " left", builtin |-> FALSE],
    [pre |-> "ext ", m |-> "12", post |-> "-3456", builtin |-> FALSE],
    [pre |-> "mail ", m |-> "a@b.co", post |-> "", builtin |-> TRUE],
    [pre |-> "call ", m |-> "555-123-4567", post |-> " now", builtin |-> TRUE],
    [pre |-> "SSN: ", m |-> "123-45-6789", post |-> "", builtin |-> TRUE],
    [pre |-> "card ", m |-> "4532-1234-5678-9010", post |-> ".",
     builtin |-> TRUE] }

MaskEmbedded ==
  \E t \in ScanCases :
    \E strategy \in {"partial", "full", "hash", "remove"} :
      /\ call' = Call("maskStringValue", t.pre \o t.m \o t.post, Str(strategy))
      /\ result' = [threw |-> FALSE, msg |-> "",
                    ret |-> maskStringValue(detector, t.pre \o t.m \o t.post,
                                            strategy)]
      /\ data' = Null
      /\ UNCHANGED << callerPatterns, other, sharing,
                      config, detector, rules, piiFieldSet, piiPatterns,
                      phiFieldSet, phiPatterns, listModel, logged, ops >>

\* the embedded scan of engines constructed with different custom patterns
ScanSpec ==
  /\ \E customPatterns \in { << >>, << PK >>, << PP, PM >>, << PK, PP >>,
                             << PM, PE >> } :
        Constructed([customPatterns |-> customPatterns])
  /\ [][MaskEmbedded]_vars

(***************************************************************************)
(* Properties.                                                             *)
(***************************************************************************)
\* the [key, value] entries of a value tree, at every depth
RECURSIVE entriesOf(_), entriesOfAll(_)
entriesOf(v) ==
  CASE v.t = "obj" ->
         [i \in 1..Len(v.keys) |-> [key |-> v.keys[i], value |-> v.vals[i]]]
         \o entriesOfAll(v.vals)
    [] v.t = "arr" -> entriesOfAll(v.items)
    [] OTHER -> << >>

entriesOfAll(vs) ==
  IF vs = << >> THEN << >> ELSE entriesOf(Head(vs)) \o entriesOfAll(Tail(vs))

\* a field name matches an entry of a configured field list: a string entry
\* case-insensitively, a RegExp entry by test
matchesFields(fields, fieldName) ==
  \E i \in 1..Len(fields) :
    IF fields[i].isRegex THEN test(fields[i].pattern, fieldName)
    ELSE toLowerCase(fields[i].name) = toLowerCase(fieldName)

\* C1: after mask(X) returned, the caller's X and every container reachable
\* from it are equal to what they were before the call
C1_InputNotMutated == call.op = "mask" => data = call.arg

\* a mask call during which a customMask function wrote into the object it
\* was handed
C1_Witness ==
  /\ call.op = "mask"
  /\ ~result.threw
  /\ result.writes # {}
  /\ \E i \in 1..Len(result.detectedFields) :
       /\ result.detectedFields[i].value.t = "obj"
       /\ result.detectedFields[i].value.id = IdClone
       /\ \E j \in 1..Len(result.detectedFields[i].value.keys) :
            result.detectedFields[i].value.keys[j] = "touched"

\* C2: in every reachable engine state the names of the patterns returned by
\* getCustomPatterns() are pairwise distinct
C2_NamesUnique ==
  \A i, j \in 1..Len(detector) :
    i # j => detector[i].name # detector[j].name

\* C3: addCustomPattern(p) with p.name already registered throws an error
\* whose message holds the name, and getCustomPatterns() is left as it was
C3_DuplicateAddFails ==
  [][(call'.op = "addCustomPattern" /\ HasName(detector, call'.name))
       => /\ result'.threw
          /\ includes(result'.msg, "'" \o call'.name \o "'")
          /\ detector' = detector]_vars

\* a rejected add on an engine that has the name registered
C3_Witness ==
  /\ call.op = "addCustomPattern"
  /\ result.threw
  /\ HasName(detector, call.name)
  /\ detector # << >>

\* C4: after updateConfig replaced a field list, a mask call treats a key as
\* explicitly configured PII (respectively PHI) exactly when the key matches
\* an entry of the list the configuration now holds
C4_FieldListsTakeEffect ==
  call.op = "mask" =>
    \A i \in 1..Len(entriesOf(call.arg)) :
      LET k == entriesOf(call.arg)[i].key
      IN /\ isPIIField(Engine, k) <=> matchesFields(config.piiFields, k)
         /\ isPHIField(Engine, k) <=> matchesFields(config.phiFields, k)

\* C5: getCustomPatterns() equals the list built by appending on each
\* successful add, deleting by name on each remove and emptying on each clear;
\* remove returns true exactly when the name was registered and otherwise
\* changes nothing; a mask call detects with exactly the patterns of the list
C5_ListModel ==
  /\ [](/\ detector = listModel
        /\ call.op = "mask" =>
             result = mask([Engine EXCEPT !.detector = listModel], call.arg))
  /\ [][call'.op = "removeCustomPattern"
          => /\ result'.ret = HasName(listModel, call'.name)
             /\ ~result'.ret => detector' = detector]_vars

\* a remove that returned true and left a shorter, non-empty list
C5_Witness ==
  /\ call.op = "removeCustomPattern"
  /\ result.ret
  /\ ~HasName(detector, call.name)
  /\ detector # << >>

\* C6: a key matching phiFields has class phi, else a key matching piiFields
\* has class pii, and auto-detection is consulted only when neither list
\* matches and detectPII is enabled
C6_ExplicitOutranksAuto ==
  call.op = "mask" =>
    \A i \in 1..Len(entriesOf(call.arg)) :
      LET k == entriesOf(call.arg)[i].key
          v == entriesOf(call.arg)[i].value
      IN getFieldType(Engine, k, v) =
           IF matchesFields(config.phiFields, k) THEN "phi"
           ELSE IF matchesFields(config.piiFields, k) THEN "pii"
           ELSE IF config.detectPII THEN detectFieldType(detector, k, v)
           ELSE ""

\* C7: a key of class c whose whole trimmed value matches a registered custom
\* pattern of class c is masked with that pattern's customMask, else with its
\* maskingStrategy, else with the Rule Resolver's result; with no such pattern
\* the Rule Resolver's result for (key, c) is used
C7_CustomPatternOverride ==
  call.op = "mask" =>
    \A i \in 1..Len(entriesOf(call.arg)) :
      LET k == entriesOf(call.arg)[i].key
          v == entriesOf(call.arg)[i].value
          c == getFieldType(Engine, k, v)
          did == classified(Engine, k, v, c, << >>, getCustomPattern(Engine, v))
          S == { j \in 1..Len(detector) :
                   /\ detector[j].fieldType = c
                   /\ IsString(v)
                   /\ match0(detector[j].pattern, trim(v.s)).found
                   /\ match0(detector[j].pattern, trim(v.s)).text = trim(v.s) }
          Resolved == /\ did.strategy = getStrategy(rules, k, c)
                      /\ did.maskedValue = maskValue(rules, k, v, c)
          Overridden(q) ==
            IF q.customMask # ""
            THEN did.maskedValue = customMaskResult(q.customMask, v)
            ELSE IF q.maskingStrategy # ""
            THEN /\ did.strategy = q.maskingStrategy
                 /\ did.maskedValue =
                      applyMaskingStrategy(v, q.maskingStrategy,
                                           config.hashAlgorithm)
            ELSE Resolved
      IN c # "" =>
           IF S = {} THEN Resolved ELSE \E j \in S : Overridden(detector[j])

hasKey(o, key) == \E j \in 1..Len(o.keys) : o.keys[j] = key

valueAt(o, key) == o.vals[CHOOSE j \in 1..Len(o.keys) : o.keys[j] = key]

\* x is a value of the input, y its masked value, z its masked value under
\* the opposite preserveStructure, detected the records of the call
RECURSIVE removalHolds(_, _, _, _, _, _)
removalHolds(e, x, y, z, path, detected) ==
  CASE x.t = "arr" ->
         \A i \in 1..Len(x.items) :
           removalHolds(e, x.items[i], y.items[i], z.items[i],
                        path \o "[" \o ToString(i - 1) \o "]", detected)
    [] x.t = "obj" ->
         \A i \in 1..Len(x.keys) :
           LET key == x.keys[i]
               value == x.vals[i]
               currentPath == IF path # "" THEN path \o "." \o key ELSE key
               fieldType == getFieldType(e, key, value)
           IN IF fieldType # ""
                 /\ classified(e, key, value, fieldType, << >>,
                               getCustomPattern(e, value)).strategy = "remove"
              THEN /\ e.config.preserveStructure =>
                        hasKey(y, key) /\ valueAt(y, key) = Str("<removed>")
                   /\ ~e.config.preserveStructure => ~hasKey(y, key)
                   /\ \E r \in 1..Len(detected) :
                        /\ detected[r].path = currentPath
                        /\ detected[r].strategy = "remove"
              ELSE /\ hasKey(y, key)
                   /\ hasKey(z, key)
                   /\ IF fieldType = "" /\ value.t \in {"arr", "obj"}
                      THEN removalHolds(e, value, valueAt(y, key),
                                        valueAt(z, key), currentPath, detected)
                      ELSE valueAt(y, key) = valueAt(z, key)
    [] OTHER -> TRUE

\* C9: a classified key whose strategy is remove is in the masked object with
\* the value '<removed>' if preserveStructure is enabled and is not in it if
\* preserveStructure is disabled; the other keys are masked as they are under
\* the opposite setting, and a record with strategy remove is emitted
C9_Removal ==
  (call.op = "mask" /\ ~result.threw /\ call.arg.t # "null") =>
    removalHolds(Engine, call.arg, result.masked,
                 mask([Engine EXCEPT !.config.preserveStructure = ~@],
                      call.arg).masked,
                 "", result.detectedFields)

\* a call that removed a key, preserveStructure disabled, and masked others
C9_Witness ==
  /\ call.op = "mask"
  /\ ~result.threw
  /\ ~config.preserveStructure
  /\ call.arg.t = "obj"
  /\ result.fieldsProcessed > 1
  /\ \E i \in 1..Len(result.detectedFields) :
       /\ result.detectedFields[i].strategy = "remove"
       /\ hasKey(call.arg, result.detectedFields[i].path)
       /\ ~hasKey(result.masked, result.detectedFields[i].path)
  /\ result.masked.keys # << >>

\* x is a value of the input and y its masked value: every string of x that
\* is not the value of a classified key is replaced by its scanned form
RECURSIVE scanCovers(_, _, _)
scanCovers(e, x, y) ==
  LET Scanned(a, b) ==
        IF IsString(a)
        THEN b = Str(maskStringValue(e.detector, a.s,
                                     getStrategy(e.rules, "", "pii")))
        ELSE scanCovers(e, a, b)
  IN CASE x.t = "arr" ->
            \A i \in 1..Len(x.items) : Scanned(x.items[i], y.items[i])
       [] x.t = "obj" ->
            \A i \in 1..Len(x.keys) :
              getFieldType(e, x.keys[i], x.vals[i]) = "" =>
                /\ hasKey(y, x.keys[i])
                /\ Scanned(x.vals[i], valueAt(y, x.keys[i]))
       [] OTHER -> TRUE

\* C10: with maskStringValues enabled, every string of the input that is not
\* classified as a sensitive field, at any depth, under an object key or
\* directly in an array, is passed through the embedded scan
C10_ScanCoversEveryString ==
  (call.op = "mask" /\ ~result.threw /\ config.maskStringValues) =>
    scanCovers(Engine, call.arg, result.masked)

\* C11: no exception leaves a mask call: on every engine whose configuration
\* and custom patterns were accepted, mask of an acyclic value returns a
\* result
C11_MaskNeverThrows == call.op = "mask" => ~result.threw

\* C12: a null or undefined value at a node of the input (the top-level
\* value, an array element, the value of a key whether classified or not) is
\* at the same position of the masked output, and the call raises no error
C12_NullsUnchanged ==
  LET RECURSIVE kept(_, _)
      kept(x, y) ==
        CASE x.t \in {"null", "undef"} -> y = x
          [] x.t = "arr" ->
               /\ y.t = "arr"
               /\ Len(y.items) = Len(x.items)
               /\ \A i \in 1..Len(x.items) : kept(x.items[i], y.items[i])
          [] x.t = "obj" ->
               /\ y.t = "obj"
               /\ \A i \in 1..Len(x.keys) :
                    IF x.vals[i].t \in {"null", "undef"}
                    THEN /\ hasKey(y, x.keys[i])
                         /\ valueAt(y, x.keys[i]) = x.vals[i]
                    ELSE (/\ hasKey(y, x.keys[i])
                          /\ valueAt(y, x.keys[i]).t = x.vals[i].t)
                           => kept(x.vals[i], valueAt(y, x.keys[i]))
          [] OTHER -> TRUE
  IN call.op = "mask" => (~result.threw /\ kept(call.arg, result.masked))

C14_LoggerAdapter ==
  LET fixed == IF call.op = "log" THEN 2 ELSE 1
      RECURSIVE original(_)
      original(v) ==
        CASE v.t = "arr" ->
               v.id = IdIn \/ \E i \in 1..Len(v.items) : original(v.items[i])
          [] v.t = "obj" ->
               v.id = IdIn \/ \E i \in 1..Len(v.vals) : original(v.vals[i])
          [] OTHER -> FALSE
  IN call.op \in LeveledMethods =>
       /\ Len(logged) = 1
       /\ logged[1].method = call.op
       /\ Len(logged[1].args) = Len(call.arg)
       /\ \A i \in 1..Len(call.arg) :
            /\ logged[1].args[i] =
                 IF i > fixed /\ call.arg[i].t \in {"arr", "obj", "date"}
                 THEN mask(Engine, call.arg[i]).masked
                 ELSE call.arg[i]
            /\ ~original(logged[1].args[i])

\* C15: for every key of the input whose name matches a maskingRules entry
\* with strategy remove, whatever the type of its value and whatever
\* detectPII is, the masked output does not hold the original value under
\* that key
C15_RemoveRuleHonoured ==
  LET RECURSIVE honoured(_, _)
      honoured(x, y) ==
        CASE x.t = "arr" /\ y.t = "arr" ->
               \A i \in 1..Len(x.items) : honoured(x.items[i], y.items[i])
          [] x.t = "obj" /\ y.t = "obj" ->
               \A i \in 1..Len(x.keys) :
                 hasKey(y, x.keys[i]) =>
                   IF /\ findRule(rules, x.keys[i]) # 0
                      /\ rules.rules[findRule(rules, x.keys[i])].strategy
                           = "remove"
                   THEN deepClone(valueAt(y, x.keys[i])) # deepClone(x.vals[i])
                   ELSE honoured(x.vals[i], valueAt(y, x.keys[i]))
          [] OTHER -> TRUE
  IN (call.op = "mask" /\ ~result.threw) => honoured(call.arg, result.masked)

\* C16: detection by field name classifies a key exactly when a built-in
\* sensitive field name, lower-cased, occurs in the lower-cased key with a
\* word boundary on either side (phi names first); the keys description,
\* subscription and transcription are not classified by name and a value of
\* theirs that holds no sensitive pattern is left as it is by the scan;
\* the key ipAddress is classified pii
C16_WordBoundary ==
  LET Word == Alpha \cup Digit \cup {"_"}
      lower == toLowerCase(call.name)
      occurs(names) ==
        \E i \in 1..Len(names) :
          \E p \in 1..Len(lower) :
            LET q == p + Len(names[i]) - 1
            IN /\ q <= Len(lower)
               /\ SubSeq(lower, p, q) = toLowerCase(names[i])
               /\ p = 1 \/ Char(lower, p - 1) \notin Word
               /\ q = Len(lower) \/ Char(lower, q + 1) \notin Word
  IN call.op = "detectFieldType" =>
       /\ result.ret =
            IF occurs(COMMON_PHI_FIELDS) THEN "phi"
            ELSE IF occurs(COMMON_PII_FIELDS) THEN "pii"
            ELSE IF call.arg = Str("192.168.1.1") THEN "pii"
            ELSE ""
       /\ call.name \in {"description", "subscription", "transcription"} =>
            /\ ~isPIIFieldName(call.name)
            /\ ~isPHIFieldName(call.name)
            /\ call.arg = Str("Premium plan") =>
                 /\ result.ret = ""
                 /\ \A strategy \in {"partial", "full", "hash", "remove"} :
                      maskStringValue(detector, call.arg.s, strategy)
                        = call.arg.s
       /\ call.name = "ipAddress" => result.ret = "pii"

\* detection asked about the key description, which holds the built-in name
\* ip inside a word, with a value that has no sensitive shape
C16_Witness ==
  /\ call.op = "detectFieldType"
  /\ call.name = "description"
  /\ includes(call.name, "ip")
  /\ call.arg = Str("Premium plan")
  /\ result.ret = ""

\* C17: partial masking of an e-mail shaped string gives the first 2
\* characters of the local part (the whole local part if it is shorter)
\* followed by ****, @ and the domain as it is
C17_PartialEmail ==
  call.op = "partialMask" =>
    LET at == indexOf(call.name, "@", 0)
        localPart == SubSeq(call.name, 1, at)
        domain == slice(call.name, at + 1)
    IN result.ret =
         SubSeq(localPart, 1, IF Len(localPart) < 2 THEN Len(localPart) ELSE 2)
         \o "****@" \o domain

\* C18: in partial mode an embedded SSN ddd-dd-dddd is replaced by
\* ***-**-**** and an embedded 16-digit card number by ****-****-****-
\* followed by its last 4 digits, the rest of the text being kept
C18_EmbeddedSsnCard ==
  (call.op = "maskStringValue" /\ call.arg = Str("partial")) =>
    \A t \in ScanTexts :
      call.name = t.pre \o t.ssn \o t.mid \o t.card =>
        result.ret =
          t.pre \o (IF t.ssn # "" THEN "***-**-****" ELSE "") \o t.mid
          \o (IF t.card # ""
              THEN "****-****-****-" \o slice(t.card, Len(t.card) - 4)
              ELSE "")

\* C19: editing the value getCustomPatterns() returned (adding or removing
\* entries) or the value getConfig() returned (assigning its fields, pushing
\* to or splicing its piiFields, phiFields, maskingRules or customPatterns)
\* changes nothing of the engine: its configuration, custom patterns, rules
\* and field lists, which later getConfig(), getCustomPatterns(), mask and
\* updateConfig calls work from, are what they were
C19_DefensiveCopies ==
  [][call'.op \in {"getConfig", "getCustomPatterns"}
       => UNCHANGED << config, detector, rules, piiFieldSet, piiPatterns,
                       phiFieldSet, phiPatterns >>]_vars

\* C20: a mask call changes no engine state (configuration, field sets and
\* field patterns with their matcher state, rules, custom patterns), and
\* masking the same value again with the engine as the call left it gives
\* the same outcome: the same masked tree and the same detected-field list,
\* also when piiFields and phiFields hold patterns with the g or y flag.
C20_Deterministic ==
  [][call'.op = "mask"
       => /\ UNCHANGED << config, detector, rules, piiFieldSet, piiPatterns,
                          phiFieldSet, phiPatterns >>
          /\ mask(Engine', call'.arg).threw = result'.threw
          /\ mask(Engine', call'.arg).masked = result'.masked
          /\ mask(Engine', call'.arg).detectedFields
               = result'.detectedFields]_vars

\* C21: detectFieldType(name, value) is phi if the name matches a built-in
\* PHI field name; else pii if it matches a built-in PII field name; else
\* the class of the first custom pattern that matches the whole value; else phi if a built-in PHI value pattern matches the value; else
\* pii if a built-in PII value pattern does; else none.  A custom pattern
\* matching only a part of the value does not classify.
C21_DetectionPrecedence ==
  call.op = "detectFieldType" =>
    LET v == call.arg
        Whole(i) == /\ IsString(v)
                    /\ test([detector[i].pattern EXCEPT !.anchS = TRUE,
                                                        !.anchE = TRUE],
                            v.s)
        Builtin(patterns) ==
          /\ IsString(v)
          /\ \E i \in 1..Len(patterns) : test(patterns[i].pattern, v.s)
    IN result.ret =
         IF isPHIFieldName(call.name) THEN "phi"
         ELSE IF isPIIFieldName(call.name) THEN "pii"
         ELSE IF \E i \in 1..Len(detector) : Whole(i)
         THEN detector[CHOOSE i \in 1..Len(detector) :
                         Whole(i) /\ \A j \in 1..(i - 1) : ~Whole(j)].fieldType
         ELSE IF Builtin(PHI_PATTERNS) THEN "phi"
         ELSE IF Builtin(PII_PATTERNS) THEN "pii"
         ELSE ""

\* C22: getStrategy(fieldName, class) is the strategy of the first entry of
\* maskingRules, in list order, that matches fieldName (a string entry by
\* case-insensitive equality, a RegExp entry by test), whatever the class
\* and the environment; only if no entry matches it is the strategy the
\* environment maps the class to.
C22_RuleOrder ==
  call.op = "getStrategy" =>
    LET list == config.maskingRules
        Matches(i) ==
          IF list[i].field.isRegex
          THEN \E pos \in 0..Len(call.name) :
                 MatchAt(list[i].field.pattern, call.name, pos) # -1
          ELSE toLowerCase(list[i].field.name) = toLowerCase(call.name)
        Mapped ==
          CASE call.arg.s = "pii" ->
                 IF config.piiEnvironmentMapping[config.env] # ""
                 THEN config.piiEnvironmentMapping[config.env]
                 ELSE DEFAULT_PII_ENVIRONMENT_MAPPING[config.env]
            [] call.arg.s = "phi" ->
                 IF config.phiEnvironmentMapping[config.env] # ""
                 THEN config.phiEnvironmentMapping[config.env]
                 ELSE DEFAULT_PHI_ENVIRONMENT_MAPPING[config.env]
            [] OTHER -> "full"
    IN /\ \A i \in 1..Len(list) :
            (Matches(i) /\ \A j \in 1..(i - 1) : ~Matches(j))
              => result.ret = list[i].strategy
       /\ (\A i \in 1..Len(list) : ~Matches(i)) => result.ret = Mapped

\* a key that a string rule matches up to case and a RegExp rule after it
\* matches too, with another strategy than the environment's
C22_Witness ==
  /\ call.op = "getStrategy" /\ call.name = "other" /\ call.arg.s = "phi"
  /\ Len(config.maskingRules) = 2
  /\ config.maskingRules[1].field.name = "Other"
  /\ config.maskingRules[2].field.isRegex
  /\ config.maskingRules[2].strategy = "hash"
  /\ result.ret = "full"

\* C23: whenever the maskingRules entry that matches a classified key has a
\* customMask function, the masked tree holds customMask(value) under that
\* key, whatever the entry's strategy (remove included), the class of the
\* key, the environment and the custom patterns registered.
C23_RuleTransformApplied ==
  (call.op = "mask" /\ ~result.threw /\ call.arg.t # "null") =>
    LET RECURSIVE applied(_, _)
        applied(x, y) ==
          CASE x.t = "arr" ->
                 /\ y.t = "arr" /\ Len(y.items) = Len(x.items)
                 /\ \A i \in 1..Len(x.items) : applied(x.items[i], y.items[i])
            [] x.t = "obj" ->
                 \A i \in 1..Len(x.keys) :
                   IF getFieldType(Engine, x.keys[i], x.vals[i]) # ""
                   THEN (/\ findRule(rules, x.keys[i]) # 0
                         /\ rules.rules[findRule(rules, x.keys[i])].customMask
                              # "")
                          => /\ hasKey(y, x.keys[i])
                             /\ valueAt(y, x.keys[i])
                                  = customMaskResult(
                                      rules.rules[findRule(rules, x.keys[i])]
                                        .customMask,
                                      x.vals[i])
                   ELSE (IsObjectType(x.vals[i]) /\ hasKey(y, x.keys[i]))
                          => applied(x.vals[i], valueAt(y, x.keys[i]))
            [] OTHER -> TRUE
    IN applied(call.arg, result.masked)


\* C24: in the embedded scan called with default strategy s, a match of a
\* custom pattern is replaced by customMask(match) if the pattern has a
\* customMask, else by the pattern's own maskingStrategy applied to the
\* match if it has one, else by s applied to the match; a match of a
\* built-in detector (e-mail, phone, SSN, card) is replaced by s applied to
\* the match, for s partial, full, hash and remove; the text around the
\* match is kept
C24_EmbeddedReplacement ==
  call.op = "maskStringValue" =>
    \A t \in ScanCases :
      call.name = t.pre \o t.m \o t.post =>
        LET s == call.arg.s
            Whole(i) == test([detector[i].pattern EXCEPT !.anchS = TRUE,
                                                         !.anchE = TRUE], t.m)
            first == FirstIndex([i \in 1..Len(detector) |-> Whole(i)])
            Other(i) == i # first /\ test(globalPattern(detector[i].pattern),
                                          call.name)
            to == IF first # 0
                  THEN IF detector[first].customMask # ""
                       THEN customMaskResult(detector[first].customMask,
                                             Str(t.m)).s
                       ELSE IF detector[first].maskingStrategy # ""
                       THEN applyMaskingToMatch(t.m,
                                                detector[first].maskingStrategy)
                       ELSE applyMaskingToMatch(t.m, s)
                  ELSE applyMaskingToMatch(t.m, s)
        IN ((first # 0 \/ t.builtin) /\ t.post # "-3456"
            /\ ~\E i \in 1..Len(detector) : Other(i))
             => result.ret = t.pre \o to \o t.post


\* C25: the text written in place of a custom-pattern match is not matched
\* or altered by the built-in e-mail, phone, SSN and card scanning that runs
\* afterwards: every custom replacement that stands in the string when the
\* custom pass is over stands in the final string as it was produced
C25_ReplacementKept ==
  call.op = "maskStringValue" =>
    LET s == call.arg.s
        afterCustom == replaceCustoms(detector, 1, call.name, s)
        \* the string the i-th custom pattern is applied to
        before(i) == replaceCustoms(SubSeq(detector, 1, i - 1), 1, call.name, s)
        segs(i) == Split(globalPattern(detector[i].pattern), before(i), 0)
        written(i) ==
          { replaceCustom(detector[i], segs(i)[k].text, s) :
              k \in { n \in 1..Len(segs(i)) : segs(i)[n].isMatch } }
    IN \A i \in 1..Len(detector) :
         \A r \in written(i) :
           includes(afterCustom, r) => includes(result.ret, r)


\* C26: under a key that is not classified as sensitive (and as an array
\* item) a number, a boolean, null or a Date is in the masked tree as an
\* equal value of the same kind, an array as an array of the same length
\* and a plain object as an object that has the unclassified keys of the
\* original and no key the original has not
C26_UnclassifiedCopied ==
  (call.op = "mask" /\ ~result.threw /\ call.arg.t # "null") =>
    LET RECURSIVE copied(_, _)
        copied(x, y) ==
          CASE x.t \in {"num", "bool", "null", "date"} -> y = x
            [] x.t = "arr" ->
                 /\ y.t = "arr" /\ Len(y.items) = Len(x.items)
                 /\ \A i \in 1..Len(x.items) : copied(x.items[i], y.items[i])
            [] x.t = "obj" ->
                 /\ y.t = "obj"
                 /\ \A j \in 1..Len(y.keys) : hasKey(x, y.keys[j])
                 /\ \A i \in 1..Len(x.keys) :
                      getFieldType(Engine, x.keys[i], x.vals[i]) = ""
                        => /\ hasKey(y, x.keys[i])
                           /\ copied(x.vals[i], valueAt(y, x.keys[i]))
            [] OTHER -> TRUE
    IN copied(call.arg, result.masked)


\* C27: in every reachable state of the engine, after construction and
\* after any calls of addCustomPattern (failed ones included),
\* removeCustomPattern, clearCustomPatterns and updateConfig,
\* getConfig().customPatterns and getCustomPatterns() hold the same
\* patterns in the same order; an addCustomPattern that throws, which
\* leaves getCustomPatterns() as it was, therefore leaves
\* getConfig().customPatterns as it was
C27_RegistryInSync == config.customPatterns = detector


\* C28: once removeCustomPattern(name) has returned true or
\* clearCustomPatterns has been called, the engine has no pattern of that
\* name (getCustomPatterns() returns none and mask applies none) until an
\* addCustomPattern(name) succeeds or updateConfig is given customPatterns
\* that hold it; an updateConfig whose argument has no customPatterns does
\* not bring the pattern back, whatever calls came before the removal.
\* Stated for the call that follows the removal.
C28_RemovedStaysRemoved ==
  [][\A name \in { p.name : p \in PatternPool } :
       (/\ \/ /\ call.op = "removeCustomPattern"
              /\ call.name = name
              /\ result.ret = TRUE
           \/ call.op = "clearCustomPatterns"
        /\ HasName(detector', name))
         => \/ /\ call'.op = "addCustomPattern"
               /\ call'.name = name
               /\ ~result'.threw
            \/ /\ call'.op = "updateConfig"
               /\ \E c \in UpdateConfigs :
                    /\ "customPatterns" \in DOMAIN c
                    /\ HasName(c.customPatterns, name)
                    /\ config' = Merged(config, c)]_vars


\* C29: addCustomPattern, removeCustomPattern, clearCustomPatterns and
\* updateConfig called on one engine change neither the customPatterns
\* array of the configuration object the caller passed to the constructor
\* nor the configuration and custom patterns (hence the getConfig(),
\* getCustomPatterns() and mask results) of another engine constructed from
\* the same object, also after that other engine has called updateConfig
C29_EnginesIsolated ==
  [][call'.op \in {"addCustomPattern", "removeCustomPattern",
                   "clearCustomPatterns", "updateConfig"}
       => UNCHANGED << callerPatterns, other >>]_vars


\* C30: for every detected-field record the recorded strategy is what was
\* done at the record's path: it is remove exactly when the key was omitted
\* or holds the '<removed>' placeholder, and otherwise the masked value at
\* the path is the recorded strategy applied to the original value (for the
\* record of a scanned string: applied to the matches in the string), under
\* every environment mapping, one that maps to remove included
C30_RecordedStrategyApplied ==
  (call.op = "mask" /\ ~result.threw /\ call.arg.t # "null") =>
    LET records == result.detectedFields
        At(path) == { j \in 1..Len(records) : records[j].path = path }
        byName(name) == CHOOSE i \in 1..Len(detector) : detector[i].name = name
        Applied(r, key, value) ==
          IF getFieldType(Engine, key, value) = ""
          THEN Str(maskStringValue(detector, value.s, r.strategy))
          ELSE IF r.strategy = "custom"
          THEN customMaskResult(detector[byName(r.customPattern)].customMask,
                                value)
          ELSE applyMaskingStrategy(value, r.strategy, config.hashAlgorithm)
        RECURSIVE done(_, _, _)
        done(x, y, path) ==
          CASE x.t = "arr" ->
                 \A i \in 1..Len(x.items) :
                   done(x.items[i], y.items[i],
                        path \o "[" \o ToString(i - 1) \o "]")
            [] x.t = "obj" ->
                 \A i \in 1..Len(x.keys) :
                   LET key == x.keys[i]
                       value == x.vals[i]
                       currentPath == IF path # "" THEN path \o "." \o key
                                      ELSE key
                   IN IF At(currentPath) # {}
                      THEN LET r == records[CHOOSE j \in At(currentPath) : TRUE]
                           IN /\ r.strategy = "remove"
                                   <=> \/ ~hasKey(y, key)
                                       \/ valueAt(y, key) = Str("<removed>")
                              /\ r.strategy # "remove"
                                   => /\ hasKey(y, key)
                                      /\ valueAt(y, key) = Applied(r, key, value)
                      ELSE (IsObjectType(value) /\ hasKey(y, key))
                             => done(value, valueAt(y, key), currentPath)
            [] OTHER -> TRUE
    IN done(call.arg, result.masked, "")

=============================================================================
